---- MODULE Spec2Model ----
(***************************************************************************)
(* Attendance logger: payroll rule engine (logic_manager.py) over the      *)
(* SQLite store (database_manager.py).                                     *)
(*                                                                         *)
(* Representation.                                                         *)
(*  - a datetime.date object is its proleptic Gregorian ordinal            *)
(*    (date.toordinal()); a 'YYYY-MM-DD' string is the tuple <<y, m, d>>,  *)
(*    compared lexicographically as SQLite compares TEXT;                  *)
(*  - a stored time string of the shape DD:DD:DD is the tuple              *)
(*    <<hh, mm, ss>> of its three two-digit fields (each 0..99), any other *)
(*    string is a one-element tuple (<<0>> is the empty string), and       *)
(*    Python's None / SQL NULL is the empty tuple;                         *)
(*  - money is an integer number of 1/300 currency units, so that          *)
(*    salary / 30.0, salary / 30.0 / 2 and round(x, 2) (a multiple of 3    *)
(*    units) are exact for integer settings; binary floating-point noise   *)
(*    is not modelled.                                                     *)
(***************************************************************************)
EXTENDS Integers, Sequences, FiniteSets, TLC

VARIABLES settings, attendance_logs, holidays, today, args, result, pc

vars == <<settings, attendance_logs, holidays, today, args, result, pc>>

None == << >>

EmptyStr == <<0>>

\* The string 'N/A'.
StrNA == <<2>>

\* One currency unit in model money units.
Unit == 300

\* ------------------------------------------------------------------------
\* datetime.date arithmetic
\* ------------------------------------------------------------------------

IsLeap(y) == (y % 4 = 0) /\ ((y % 100 # 0) \/ (y % 400 = 0))

\* datetime._DAYS_IN_MONTH and datetime._DAYS_BEFORE_MONTH (non-leap year).
DAYS_IN_MONTH == <<31, 28, 31, 30, 31, 30, 31, 31, 30, 31, 30, 31>>

DAYS_BEFORE_MONTH == <<0, 31, 59, 90, 120, 151, 181, 212, 243, 273, 304, 334>>

DaysInMonth(y, m) == IF m = 2 /\ IsLeap(y) THEN 29 ELSE DAYS_IN_MONTH[m]

DaysBeforeYear(y) ==
    (y - 1) * 365 + ((y - 1) \div 4) - ((y - 1) \div 100) + ((y - 1) \div 400)

DaysBeforeMonth(y, m) == DAYS_BEFORE_MONTH[m] + (IF m > 2 /\ IsLeap(y) THEN 1 ELSE 0)

\* date(y, m, d).toordinal()
ToOrdinal(ymd) == DaysBeforeYear(ymd[1]) + DaysBeforeMonth(ymd[1], ymd[2]) + ymd[3]

\* date.fromordinal(n) as <<year, month, day>> (datetime._ord2ymd: the 400-,
\* 100-, 4- and 1-year cycles, then the month estimated as (n + 50) >> 5);
\* also strftime('%Y-%m-%d').
FromOrdinal(ordinal) ==
    LET n0   == ordinal - 1
        n400 == n0 \div 146097
        r400 == n0 % 146097
        n100 == r400 \div 36524
        r100 == r400 % 36524
        n4   == r100 \div 1461
        r4   == r100 % 1461
        n1   == r4 \div 365
        n    == r4 % 365
        year == n400 * 400 + 1 + n100 * 100 + n4 * 4 + n1
        leap == IF n1 = 3 /\ (n4 # 24 \/ n100 = 3) THEN 1 ELSE 0
        month == (n + 50) \div 32
        preceding == DAYS_BEFORE_MONTH[month] + (IF month > 2 THEN leap ELSE 0)
    IN  IF n1 = 4 \/ n100 = 4 THEN <<year - 1, 12, 31>>
        ELSE IF preceding > n
        THEN <<year, month - 1,
               n - (preceding - (DAYS_IN_MONTH[month - 1]
                                 + (IF month - 1 = 2 THEN leap ELSE 0))) + 1>>
        ELSE <<year, month, n - preceding + 1>>

strftime(date_obj) == FromOrdinal(date_obj)

\* datetime.strptime(s, '%Y-%m-%d').date()
strptime_date(date_str) == ToOrdinal(date_str)

\* date.weekday(): Monday is 0, Sunday is 6.
Weekday(date_obj) == (date_obj + 6) % 7

\* A faulty DayOf that reads the month field of the date.
DayOf_month(date_obj) == FromOrdinal(date_obj)[2]

DayOf(date_obj) == FromOrdinal(date_obj)[3]

\* date.replace(day=d) raises ValueError when the month has no day d.
ReplaceDayOk(date_obj, d) ==
    LET ymd == FromOrdinal(date_obj) IN d >= 1 /\ d <= DaysInMonth(ymd[1], ymd[2])

ReplaceDay(date_obj, d) ==
    LET ymd == FromOrdinal(date_obj) IN ToOrdinal(<<ymd[1], ymd[2], d>>)

\* Lexicographic order of 'YYYY-MM-DD' strings (SQLite TEXT comparison).
StrLE(a, b) ==
    \/ a[1] < b[1]
    \/ a[1] = b[1] /\ a[2] < b[2]
    \/ a[1] = b[1] /\ a[2] = b[2] /\ a[3] <= b[3]

\* ------------------------------------------------------------------------
\* database_manager.get_setting: the settings table is a function from the
\* stored keys to their values; the result is None or <<value>>.
\* ------------------------------------------------------------------------

get_setting(stg, key) == IF key \in DOMAIN stg THEN <<stg[key]>> ELSE None

\* ------------------------------------------------------------------------
\* logic_manager.get_start_end_dates_for_period
\* ------------------------------------------------------------------------

\* A faulty resolver that starts every period in the reference month.
get_start_end_dates_for_period_current(stg, today_date_obj) ==
    LET month_start_day == get_setting(stg, "month_start_day")[1]
        month_end_day == get_setting(stg, "month_end_day")[1]
        next_month == ReplaceDay(today_date_obj, 1) + 32
    IN  IF ReplaceDayOk(today_date_obj, month_start_day)
           /\ ReplaceDayOk(next_month, month_end_day)
        THEN [ok |-> TRUE,
              start |-> strftime(ReplaceDay(today_date_obj, month_start_day)),
              end |-> strftime(ReplaceDay(next_month, month_end_day))]
        ELSE [ok |-> FALSE]

\* The result is [ok |-> TRUE, start, end] (two date strings) or
\* [ok |-> FALSE] when a date.replace call raises ValueError.
get_start_end_dates_for_period(stg, today_date_obj) ==
    LET month_start_day_raw == get_setting(stg, "month_start_day")
        month_end_day_raw   == get_setting(stg, "month_end_day")
        month_start_day == IF month_start_day_raw # None THEN month_start_day_raw[1] ELSE 28
        month_end_day   == IF month_end_day_raw # None THEN month_end_day_raw[1] ELSE 27
    IN  IF DayOf(today_date_obj) >= month_start_day
        THEN LET next_month == ReplaceDay(today_date_obj, 1) + 32
             IN  IF ReplaceDayOk(today_date_obj, month_start_day)
                    /\ ReplaceDayOk(next_month, month_end_day)
                 THEN [ok |-> TRUE,
                       start |-> strftime(ReplaceDay(today_date_obj, month_start_day)),
                       end |-> strftime(ReplaceDay(next_month, month_end_day))]
                 ELSE [ok |-> FALSE]
        ELSE LET previous_month == ReplaceDay(today_date_obj, 1) - 1
             IN  IF ReplaceDayOk(today_date_obj, month_end_day)
                    /\ ReplaceDayOk(previous_month, month_start_day)
                 THEN [ok |-> TRUE,
                       start |-> strftime(ReplaceDay(previous_month, month_start_day)),
                       end |-> strftime(ReplaceDay(today_date_obj, month_end_day))]
                 ELSE [ok |-> FALSE]

\* ------------------------------------------------------------------------
\* Specification SpecPeriod: the period resolver over every policy with
\* start and end day in 1..31 and every reference date of a window.
\* ------------------------------------------------------------------------

\* First reference date: 2023-11-01.
RefFirst == ToOrdinal(<<2023, 11, 1>>)

\* Number of consecutive reference dates (to 2024-03-31: a 30-day month, the
\* December/January rollover and a leap February).
RefSpan == 152

PolicyDays == 1..31

DefaultSalary == 60000

DefaultRate == 250

InitPeriod ==
    /\ \E s \in PolicyDays, e \in PolicyDays :
          settings = [fixed_monthly_salary |-> DefaultSalary, hourly_rate |-> DefaultRate,
                      month_start_day |-> s, month_end_day |-> e]
    /\ today \in RefFirst .. (RefFirst + RefSpan - 1)
    /\ attendance_logs = {}
    /\ holidays = {}
    /\ args = None
    /\ result = None
    /\ pc = "start"

ResolvePeriod ==
    /\ pc = "start"
    /\ result' = get_start_end_dates_for_period(settings, today)
    /\ pc' = "resolved"
    /\ UNCHANGED <<settings, attendance_logs, holidays, today, args>>

NextPeriod == ResolvePeriod

SpecPeriod == InitPeriod /\ [][NextPeriod]_vars

\* ------------------------------------------------------------------------
\* logic_manager.get_daily_pay_and_penalties
\* ------------------------------------------------------------------------

\* A faulty strptime_time_ok that accepts any three numeric fields.
strptime_time_ok_lenient(time_str) == Len(time_str) = 3

\* datetime.strptime(s, '%H:%M:%S') raises ValueError unless the string has
\* three numeric fields with hour <= 23, minute <= 59 and second <= 59.
strptime_time_ok(time_str) ==
    /\ Len(time_str) = 3
    /\ time_str[1] <= 23 /\ time_str[2] <= 59 /\ time_str[3] <= 59

\* A datetime.time as seconds since midnight (time objects compare as
\* their (hour, minute, second) tuples).
Time(h, m, s) == h * 3600 + m * 60 + s

strptime_time(time_str) == Time(time_str[1], time_str[2], time_str[3])

\* Python truthiness of a stored string: None and '' are falsy.
Falsy(str) == str = None \/ str = EmptyStr

\* `not log_entry or not log_entry['time_in']`; a log entry is a sequence of
\* at most one row (<<>> is None).
NoTimeIn(log_entry) == log_entry = None \/ Falsy(log_entry[1].time_in)

HalfDayCutoff == Time(12, 0, 0)

TwoHourCutoff == Time(11, 0, 0)

OneHourCutoff == Time(10, 0, 0)

LateCutoff == Time(9, 15, 0)

R_Absent == "Absent (No IN Time)"

R_Invalid == "Invalid IN Time Format"

R_Half == "Half Day (Logged IN after 12:00 PM)"

R_Late2 == "Late (IN after 11 AM) - 2 hours cut"

R_Late1 == "Late (IN after 10 AM) - 1 hour cut"

R_Late == "Late (IN after 09:15 AM)"

R_OnTime == "On Time"

\* `"Late" in late_reason` and `"Half Day" in late_reason`.
ContainsLate(reason) == reason \in {R_Late2, R_Late1, R_Late}

ContainsHalfDay(reason) == reason = R_Half

\* A faulty FloorAtZero that lets the pay go negative.
FloorAtZero_none(daily_pay) == daily_pay

\* Lines 222-224: a tier's pay never goes below zero.
FloorAtZero(daily_pay) == IF daily_pay < 0 THEN 0 ELSE daily_pay

\* A faulty IsLateArrival that counts an arrival at 09:15:00 sharp as late.
IsLateArrival_inclusive(in_time) == in_time >= LateCutoff

\* Line 216: in_time > datetime.time(9, 15, 0)
IsLateArrival(in_time) == in_time > LateCutoff

\* Lines 198-220: the tier of a parsed time-in.
PayTier(in_time, fixed_salary_per_day, hourly_rate) ==
    IF in_time >= HalfDayCutoff
    THEN [pay |-> fixed_salary_per_day \div 2, late |-> FALSE, reason |-> R_Half]
    ELSE IF in_time >= TwoHourCutoff
    THEN [pay |-> FloorAtZero(fixed_salary_per_day - hourly_rate * 2),
          late |-> TRUE, reason |-> R_Late2]
    ELSE IF in_time >= OneHourCutoff
    THEN [pay |-> FloorAtZero(fixed_salary_per_day - hourly_rate * 1),
          late |-> TRUE, reason |-> R_Late1]
    ELSE IF IsLateArrival(in_time)
    THEN [pay |-> FloorAtZero(fixed_salary_per_day), late |-> TRUE, reason |-> R_Late]
    ELSE [pay |-> FloorAtZero(fixed_salary_per_day), late |-> FALSE, reason |-> R_OnTime]

\* Returns (daily_salary_contribution, is_late_for_cumulative_count, reason).
get_daily_pay_and_penalties(log_entry, fixed_salary_per_day, hourly_rate) ==
    IF NoTimeIn(log_entry)
    THEN [pay |-> 0, late |-> FALSE, reason |-> R_Absent]
    ELSE IF ~strptime_time_ok(log_entry[1].time_in)
    THEN [pay |-> 0, late |-> FALSE, reason |-> R_Invalid]
    ELSE PayTier(strptime_time(log_entry[1].time_in), fixed_salary_per_day, hourly_rate)

\* ------------------------------------------------------------------------
\* Specification SpecPay: the rule table over boundary time-ins and rates.
\* ------------------------------------------------------------------------

PayMinutes == {0, 14, 15, 16, 59}

PaySeconds == {0, 1, 59}

\* Hours 0 .. MaxHour; 24 and above are not times of day.
MaxHour == 24

PayTimeStrs ==
    {<<h, m, s>> : h \in 0..MaxHour, m \in PayMinutes, s \in PaySeconds}
        \cup {None, EmptyStr, <<1>>, <<12, 60, 0>>, <<12, 0, 60>>}

\* Monthly salaries and hourly rates in currency units.
PaySalaries == {30, 300, 60000}

PayRates == {0, 4, 6, 250}

\* fixed_monthly_salary / 30.0 in money units.
PerDay(fixed_monthly_salary) == (fixed_monthly_salary * Unit) \div 30

Row(date_str, time_in, time_out) ==
    [date |-> date_str, time_in |-> time_in, time_out |-> time_out]

PayDate == <<2025, 6, 2>>

InitPay ==
    /\ settings = [fixed_monthly_salary |-> DefaultSalary, hourly_rate |-> DefaultRate,
                   month_start_day |-> 28, month_end_day |-> 27]
    /\ today = ToOrdinal(PayDate)
    /\ attendance_logs = {}
    /\ holidays = {}
    /\ \E entry \in {None} \cup {<<Row(PayDate, t, None)>> : t \in PayTimeStrs},
          sal \in PaySalaries, rate \in PayRates :
          args = [log_entry |-> entry, fixed_salary_per_day |-> PerDay(sal),
                  hourly_rate |-> rate * Unit]
    /\ result = None
    /\ pc = "start"

ApplyPayRule ==
    /\ pc = "start"
    /\ result' = get_daily_pay_and_penalties(args.log_entry, args.fixed_salary_per_day,
                                             args.hourly_rate)
    /\ pc' = "paid"
    /\ UNCHANGED <<settings, attendance_logs, holidays, today, args>>

NextPay == ApplyPayRule

SpecPay == InitPay /\ [][NextPay]_vars

\* ------------------------------------------------------------------------
\* database_manager range queries and logic_manager day predicates
\* ------------------------------------------------------------------------

\* SELECT * FROM attendance_logs WHERE date BETWEEN ? AND ?
get_attendance_logs_in_range(logs, start_date_str, end_date_str) ==
    {r \in logs : StrLE(start_date_str, r.date) /\ StrLE(r.date, end_date_str)}

\* SELECT * FROM holidays WHERE holiday_date BETWEEN ? AND ?
get_holidays_in_range(hols, start_date_str, end_date_str) ==
    {h \in hols : StrLE(start_date_str, h.holiday_date) /\ StrLE(h.holiday_date, end_date_str)}

\* dict.get(date_str) on {log['date']: log for log in rows}: None or the row.
DictGet(all_logs, date_str) ==
    LET m == {r \in all_logs : r.date = date_str}
    IN  IF m = {} THEN None ELSE <<CHOOSE r \in m : TRUE>>

HasKey(all_holidays, date_str) == \E h \in all_holidays : h.holiday_date = date_str

\* all_holidays[date_str]
Description(all_holidays, date_str) ==
    (CHOOSE h \in all_holidays : h.holiday_date = date_str).description

\* A faulty is_weekend that takes only the Saturday for a weekend day.
is_weekend_saturday(date_obj) == Weekday(date_obj) \in {5}

is_weekend(date_obj) == Weekday(date_obj) \in {5, 6}

\* Queries the holidays table for the one date.
is_public_holiday(hols, date_str) == get_holidays_in_range(hols, date_str, date_str) # {}

\* A faulty Round2 that floors a negative amount at zero.
Round2_floored(x) == IF x < 0 THEN 0 ELSE IF x % 3 = 2 THEN x + 1 ELSE x - (x % 3)

\* round(x, 2): the nearest whole cent (3 money units).
Round2(x) == IF x % 3 = 2 THEN x + 1 ELSE x - (x % 3)

\* ------------------------------------------------------------------------
\* logic_manager.calculate_monthly_salary
\* ------------------------------------------------------------------------

S_Working == <<"Working Day">>

S_Sunday == <<"Paid Day Off (Sunday)">>

S_WorkingSaturday == <<"Working Saturday">>

S_UnloggedSaturday == <<"Unlogged Saturday (Pending Rule 2)">>

S_HolidaySaturday == <<"Holiday Saturday">>

S_Absent == <<"Absent">>

S_HalfDay == <<"Half Day">>

S_Late == <<"Working Day (Late)">>

S_OnTime == <<"Working Day (On Time)">>

S_AutoGranted == <<"Paid Day Off (Auto Granted)">>

\* f"Paid Day Off (Public Holiday: {description})"
S_Holiday(description) == <<"Paid Day Off (Public Holiday: ", description, ")">>

\* Lines 276-290: the weekend branch. A day is [status, contribution,
\* late_reason, is_late, worked_saturday, counted_late, saturday_holiday].
WeekendBranch(current_date, log_entry, fixed_salary_per_day, hourly_rate) ==
    LET blank == [status |-> S_Working, contribution |-> 0, late_reason |-> "",
                  is_late |-> FALSE, worked_saturday |-> 0, counted_late |-> 0,
                  saturday_holiday |-> 0]
    IN  IF ~is_weekend(current_date) THEN blank
        ELSE IF Weekday(current_date) = 6
        THEN [blank EXCEPT !.status = S_Sunday, !.contribution = fixed_salary_per_day]
        ELSE IF ~NoTimeIn(log_entry)
        THEN LET p == get_daily_pay_and_penalties(log_entry, fixed_salary_per_day, hourly_rate)
             IN  [blank EXCEPT !.status = S_WorkingSaturday, !.contribution = p.pay,
                               !.late_reason = p.reason, !.is_late = p.late,
                               !.worked_saturday = 1,
                               !.counted_late = IF p.late THEN 1 ELSE 0]
        ELSE [blank EXCEPT !.status = S_UnloggedSaturday, !.contribution = 0]

\* A faulty HolidayApplies under which a holiday overrides only a day that
\* the weekend branch left a working day.
HolidayApplies_workday(is_holiday, day_status) == is_holiday /\ day_status = S_Working

\* Line 292: the guard of the holiday override.
HolidayApplies(is_holiday, day_status) == is_holiday /\ day_status # S_Sunday

\* Lines 292-298: the holiday override; all_holidays[date_str] raises
\* KeyError when the date is missing from the snapshot.
HolidayBranch(day, current_date, date_str, all_holidays, live_holidays, fixed_salary_per_day) ==
    IF HolidayApplies(is_public_holiday(live_holidays, date_str), day.status)
    THEN IF ~HasKey(all_holidays, date_str)
         THEN [day EXCEPT !.status = <<"KeyError">>]
         ELSE [day EXCEPT
                 !.status = IF Weekday(current_date) = 5 THEN S_HolidaySaturday
                            ELSE S_Holiday(Description(all_holidays, date_str)),
                 !.saturday_holiday = IF Weekday(current_date) = 5 THEN 1 ELSE 0,
                 !.contribution = fixed_salary_per_day]
    ELSE day

\* Lines 300-315: the attendance rules of an actual working day.
WorkingDayBranch(day, log_entry, fixed_salary_per_day, hourly_rate) ==
    IF day.status = S_Working
    THEN LET p == get_daily_pay_and_penalties(log_entry, fixed_salary_per_day, hourly_rate)
         IN  [day EXCEPT !.contribution = p.pay, !.is_late = p.late,
                         !.late_reason = p.reason,
                         !.counted_late = IF p.late THEN 1 ELSE 0,
                         !.status = IF NoTimeIn(log_entry) THEN S_Absent
                                    ELSE IF ContainsHalfDay(p.reason) THEN S_HalfDay
                                    ELSE IF ContainsLate(p.reason) THEN S_Late
                                    ELSE S_OnTime]
    ELSE day

\* Lines 268-315: one date of the loop.
ClassifyDay(current_date, all_logs, all_holidays, live_holidays, fixed_salary_per_day, hourly_rate) ==
    LET date_str  == strftime(current_date)
        log_entry == DictGet(all_logs, date_str)
        d1 == WeekendBranch(current_date, log_entry, fixed_salary_per_day, hourly_rate)
        d2 == HolidayBranch(d1, current_date, date_str, all_holidays, live_holidays,
                            fixed_salary_per_day)
        d3 == WorkingDayBranch(d2, log_entry, fixed_salary_per_day, hourly_rate)
    IN  [date_str |-> date_str, log_entry |-> log_entry, day |-> d3]

\* Lines 320-327: the record appended to daily_breakdown.
DayRecord(c) ==
    [date |-> c.date_str,
     status |-> c.day.status,
     in |-> IF c.log_entry # None THEN c.log_entry[1].time_in ELSE StrNA,
     out |-> IF c.log_entry # None THEN c.log_entry[1].time_out ELSE StrNA,
     daily_pay_contribution |-> Round2(c.day.contribution),
     penalty_reason |-> c.day.late_reason]

\* A faulty NextDate that steps two days, leaving every other date out.
NextDate_skip(current_date) == current_date + 2

\* Line 328: current_date += timedelta(days=1)
NextDate(current_date) == current_date + 1

\* Lines 267-328: one iteration on the loop's locals.
DayStep(acc, current_date, all_logs, all_holidays, live_holidays, fixed_salary_per_day, hourly_rate) ==
    LET c == ClassifyDay(current_date, all_logs, all_holidays, live_holidays,
                         fixed_salary_per_day, hourly_rate)
    IN  IF c.day.status = <<"KeyError">> THEN [acc EXCEPT !.error = TRUE]
        ELSE [acc EXCEPT
                !.total_calculated_salary = @ + c.day.contribution,
                !.contributions = Append(@, c.day.contribution),
                !.daily_breakdown = Append(@, DayRecord(c)),
                !.late_count = @ + c.day.counted_late,
                !.actual_working_saturdays = @ + c.day.worked_saturday,
                !.saturday_holiday = IF c.day.saturday_holiday = 1 THEN 1 ELSE @]

RECURSIVE DayLoop(_, _, _, _, _, _, _, _)
DayLoop(acc, current_date, end_date, all_logs, all_holidays, live_holidays, fixed_salary_per_day, hourly_rate) ==
    IF current_date <= end_date /\ ~acc.error
    THEN DayLoop(DayStep(acc, current_date, all_logs, all_holidays, live_holidays,
                         fixed_salary_per_day, hourly_rate),
                 NextDate(current_date), end_date, all_logs, all_holidays, live_holidays,
                 fixed_salary_per_day, hourly_rate)
    ELSE acc

\* A faulty LateDeductionsCount that cuts one day however many threes of late
\* instances there are.
LateDeductionsCount_once(late_count) == IF late_count >= 3 THEN 1 ELSE 0

\* A faulty LateDeductionsCount that cuts a day for every two late instances.
LateDeductionsCount_half(late_count) == late_count \div 2

\* Lines 332-334: late_count // 3 full days are cut.
LateDeductionsCount(late_count) == late_count \div 3

\* Lines 353-354: a grace candidate is an "Absent" record whose date is
\* neither a weekend day nor a public holiday.
GraceCandidate(day_info, live_holidays) ==
    /\ day_info.status = S_Absent
    /\ ~is_weekend(strptime_date(day_info.date))
    /\ ~is_public_holiday(live_holidays, day_info.date)

\* Lines 350-362: the index of the first grace candidate from i on, 0 when
\* there is none.
RECURSIVE GraceScan(_, _, _)
GraceScan(daily_breakdown, i, live_holidays) ==
    IF i > Len(daily_breakdown) THEN 0
    ELSE IF GraceCandidate(daily_breakdown[i], live_holidays) THEN i
    ELSE GraceScan(daily_breakdown, i + 1, live_holidays)

\* A faulty GraceIndex whose scan leaves the first record out.
GraceIndex_second(daily_breakdown, live_holidays) == GraceScan(daily_breakdown, 2, live_holidays)

\* Line 350: the scan starts at the first record.
GraceIndex(daily_breakdown, live_holidays) == GraceScan(daily_breakdown, 1, live_holidays)

\* Lines 356-361: the candidate's record rewritten.
GraceRewrite(daily_breakdown, i, fixed_salary_per_day) ==
    [daily_breakdown EXCEPT ![i] = [@ EXCEPT !.status = S_AutoGranted,
                                             !.penalty_reason = "",
                                             !.daily_pay_contribution = Round2(fixed_salary_per_day)]]

\* Line 366: the guard of the Saturday deduction.
SaturdayDeductionDue(actual_working_saturdays, saturday_holiday, one_paid_day_off_applied) ==
    actual_working_saturdays < 2 /\ saturday_holiday = 0 /\ one_paid_day_off_applied

\* Lines 330-388 on the locals left by the loop.
PostIteration(acc, live_holidays, fixed_salary_per_day, start_date_str, end_date_str) ==
    LET late_deductions_count == LateDeductionsCount(acc.late_count)
        late_deduction_amount == late_deductions_count * fixed_salary_per_day
        total_after_late == acc.total_calculated_salary - late_deduction_amount
        i == GraceIndex(acc.daily_breakdown, live_holidays)
        grace_applied == i # 0
        daily_breakdown == IF grace_applied
                           THEN GraceRewrite(acc.daily_breakdown, i, fixed_salary_per_day)
                           ELSE acc.daily_breakdown
        total_after_grace == IF grace_applied THEN total_after_late + fixed_salary_per_day
                             ELSE total_after_late
        due == SaturdayDeductionDue(acc.actual_working_saturdays, acc.saturday_holiday,
                                    grace_applied)
        missed_saturdays_for_deduction == 2 - acc.actual_working_saturdays
        saturday_deduction == IF due THEN missed_saturdays_for_deduction * fixed_salary_per_day
                              ELSE 0
        total_calculated_salary == IF due THEN total_after_grace - saturday_deduction
                                   ELSE total_after_grace + fixed_salary_per_day
        one_paid_day_off_applied == IF due THEN grace_applied ELSE TRUE
        saturday_reason == IF due THEN <<"Deducted for ", missed_saturdays_for_deduction,
                                         " unlogged Saturday(s) (Expected 2 worked)">>
                           ELSE <<"">>
        summary == <<
            <<"Salary calculated for period: ", start_date_str, " to ", end_date_str>>,
            <<"Total Late Instances: ", acc.late_count, late_deductions_count,
              Round2(late_deduction_amount)>>,
            <<"Saturdays Worked (not holidays): ", acc.actual_working_saturdays,
              saturday_reason>> >>
            \o (IF one_paid_day_off_applied
                THEN << <<"One auto-granted paid day off applied.">> >> ELSE << >>)
    IN  [outcome |-> "report",
         report |-> [total_salary |-> Round2(total_calculated_salary),
                     details |-> daily_breakdown,
                     summary |-> summary,
                     period_start |-> start_date_str,
                     period_end |-> end_date_str],
         locals |-> [fixed_salary_per_day |-> fixed_salary_per_day,
                     late_count |-> acc.late_count,
                     late_deductions_count |-> late_deductions_count,
                     late_deduction_total |-> late_deduction_amount,
                     actual_working_saturdays |-> acc.actual_working_saturdays,
                     saturday_holiday |-> acc.saturday_holiday,
                     grace_applied |-> grace_applied,
                     saturday_deduction |-> saturday_deduction,
                     contributions |-> acc.contributions,
                     total_after_loop |-> acc.total_calculated_salary,
                     total_after_late |-> total_after_late,
                     total_after_grace |-> total_after_grace,
                     total_calculated_salary |-> total_calculated_salary]]

ConfigMissing == <<"Please set Fixed Monthly Salary and Hourly Rate in settings.">>

\* Lines 256-262: the loop's locals before the first date; contributions
\* lists the daily_contribution added to the total at line 318, date by date.
LoopInit ==
    [total_calculated_salary |-> 0, contributions |-> << >>,
     daily_breakdown |-> << >>, late_count |-> 0,
     actual_working_saturdays |-> 0, saturday_holiday |-> 0, error |-> FALSE]

\* The outcome is "ValueError" (the period resolver raised), "KeyError"
\* (all_holidays[date_str] raised) or "report".
calculate_monthly_salary(stg, logs, hols, today_date_obj) ==
    LET period == get_start_end_dates_for_period(stg, today_date_obj)
        fixed_monthly_salary_str == get_setting(stg, "fixed_monthly_salary")
        hourly_rate_str == get_setting(stg, "hourly_rate")
        fixed_monthly_salary == IF fixed_monthly_salary_str # None
                                THEN fixed_monthly_salary_str[1] ELSE 0
        hourly_rate == IF hourly_rate_str # None THEN hourly_rate_str[1] ELSE 0
    IN  IF ~period.ok THEN [outcome |-> "ValueError"]
        ELSE IF fixed_monthly_salary = 0 \/ hourly_rate = 0
        THEN [outcome |-> "report",
              report |-> [total_salary |-> 0, details |-> << >>, summary |-> ConfigMissing]]
        ELSE LET fixed_salary_per_day == PerDay(fixed_monthly_salary)
                 all_logs == get_attendance_logs_in_range(logs, period.start, period.end)
                 all_holidays == get_holidays_in_range(hols, period.start, period.end)
                 acc == DayLoop(LoopInit, strptime_date(period.start),
                                strptime_date(period.end), all_logs, all_holidays, hols,
                                fixed_salary_per_day, hourly_rate * Unit)
             IN  IF acc.error THEN [outcome |-> "KeyError"]
                 ELSE PostIteration(acc, hols, fixed_salary_per_day,
                                    period.start, period.end)

\* ------------------------------------------------------------------------
\* Specification Spec: one salary calculation over a stored policy, logs
\* and holidays.
\* ------------------------------------------------------------------------

\* The day of the calculation: Monday 2025-06-02.
Today == <<2025, 6, 2>>

\* Logs are stored for dates from Saturday 2025-05-31 to Saturday
\* 2025-06-07 (two Saturdays, a Sunday, five weekdays), holidays for the
\* Saturday, the Sunday and the Monday that open that window.
WindowFirst == <<2025, 5, 31>>

WindowLast == <<2025, 6, 7>>

HolidayLast == <<2025, 6, 2>>

MaxLogs == 4

MaxHolidays == 1

WindowDates == {strftime(n) : n \in ToOrdinal(WindowFirst)..ToOrdinal(WindowLast)}

HolidayDates == {strftime(n) : n \in ToOrdinal(WindowFirst)..ToOrdinal(HolidayLast)}

\* On time, and late with a one-hour cut.
LogTimes == {<<9, 0, 0>>, <<10, 30, 0>>}

\* <<fixed_monthly_salary, hourly_rate, month_start_day, month_end_day>>:
\*  - the test block's policy (period 2025-05-28 to 2025-06-27);
\*  - a period that is the window and two more days (2025-05-31 to
\*    2025-06-09), with an hourly cut above the daily salary;
\*  - a short period (2025-05-31 to 2025-06-03) that leaves stored dates out;
\*  - an end day the reference month lacks;
\*  - an unconfigured salary.
Configs == {<<60000, 250, 28, 27>>, <<100, 50, 31, 9>>, <<60000, 250, 31, 3>>,
            <<60000, 250, 5, 31>>, <<0, 250, 28, 27>>}

Holiday(date_str, description) == [holiday_date |-> date_str, description |-> description]

Init ==
    /\ \E c \in Configs :
          settings = [fixed_monthly_salary |-> c[1], hourly_rate |-> c[2],
                      month_start_day |-> c[3], month_end_day |-> c[4]]
    /\ today = ToOrdinal(Today)
    /\ \E D \in {X \in SUBSET WindowDates : Cardinality(X) <= MaxLogs} :
          \E f \in [D -> LogTimes] :
             attendance_logs = {Row(d, f[d], None) : d \in D}
    /\ \E H \in {X \in SUBSET HolidayDates : Cardinality(X) <= MaxHolidays} :
          holidays = {Holiday(d, "Eid") : d \in H}
    /\ args = None
    /\ result = None
    /\ pc = "start"

\* A faulty rows_after_select under which a read consumes the rows it
\* returns.
rows_after_select_consumed(table) == {}

\* The get_* functions of database_manager execute one SELECT and close the
\* connection without a commit: the table is left as it was.
rows_after_select(table) == table

Calculate ==
    /\ pc = "start"
    /\ result' = calculate_monthly_salary(settings, attendance_logs, holidays, today)
    /\ pc' = "done"
    /\ attendance_logs' = rows_after_select(attendance_logs)
    /\ holidays' = rows_after_select(holidays)
    /\ UNCHANGED <<settings, today, args>>

Next == Calculate

Spec == Init /\ [][Next]_vars

\* ------------------------------------------------------------------------
\* Properties of calculate_monthly_salary (specification Spec)
\* ------------------------------------------------------------------------

\* The calculation returned a report with a breakdown (the policy is
\* configured and nothing raised).
HasBreakdown ==
    /\ pc = "done"
    /\ result.outcome = "report"
    /\ "period_start" \in DOMAIN result.report

Details == result.report.details

IsHolidayDate(date_str) == \E h \in holidays : h.holiday_date = date_str

HolidayDescription(date_str) ==
    (CHOOSE h \in holidays : h.holiday_date = date_str).description

IsSaturday(date_str) == Weekday(ToOrdinal(date_str)) = 5

IsSunday(date_str) == Weekday(ToOrdinal(date_str)) = 6

\* fixed_monthly_salary / 30 of the stored policy, in money units.
FixedSalaryPerDay == (settings.fixed_monthly_salary * Unit) \div 30

\* C1: a breakdown holds exactly one record for every date of
\* [period_start, period_end], none for a date outside, in strictly
\* ascending date order: its k-th record is for the k-th date of the period.
InvC1_OneRecordPerDate ==
    HasBreakdown =>
        LET first == ToOrdinal(result.report.period_start)
            last  == ToOrdinal(result.report.period_end)
        IN  /\ Len(Details) = last - first + 1
            /\ \A k \in 1..Len(Details) : Details[k].date = FromOrdinal(first + k - 1)
            /\ \A j, k \in 1..Len(Details) :
                  j < k => /\ Details[j].date # Details[k].date
                           /\ StrLE(Details[j].date, Details[k].date)

\* C1 witness: the breakdown of the default 28..27 period, 31 records from
\* 2025-05-28 to 2025-06-27.
WitC1_FullPeriod ==
    /\ HasBreakdown
    /\ Len(Details) = 31
    /\ Details[1].date = <<2025, 5, 28>>
    /\ Details[31].date = <<2025, 6, 27>>

\* C3 as claimed: every calculation ends with a report, never with an error.
CexC3_AlwaysReturnsReport == pc = "done" => result.outcome = "report"

HolidayStatuses == {S_HolidaySaturday} \cup {S_Holiday(h.description) : h \in holidays}

\* C4 as claimed: every holiday of the period, a holiday on a Sunday
\* included, has a holiday status and contributes fixed_salary_per_day.
CexC4_HolidayAlwaysFirst ==
    HasBreakdown =>
        \A k \in 1..Len(Details) :
            IsHolidayDate(Details[k].date) =>
                /\ Details[k].status \in HolidayStatuses
                /\ result.locals.contributions[k] = FixedSalaryPerDay

\* C4 amended: a holiday that is not a Sunday has a holiday status
\* ("Holiday Saturday" on a Saturday, "Paid Day Off (Public Holiday: ...)"
\* with its description on a weekday); a holiday on a Sunday keeps the Sunday
\* status; either way the date contributes exactly fixed_salary_per_day to
\* the total and its record shows that amount rounded to cents.
ThmC4_HolidayFirstExceptSunday ==
    HasBreakdown =>
        \A k \in 1..Len(Details) :
            IsHolidayDate(Details[k].date) =>
                /\ Details[k].status =
                      IF IsSunday(Details[k].date) THEN S_Sunday
                      ELSE IF IsSaturday(Details[k].date) THEN S_HolidaySaturday
                      ELSE S_Holiday(HolidayDescription(Details[k].date))
                /\ result.locals.contributions[k] = FixedSalaryPerDay
                /\ Details[k].daily_pay_contribution = Round2(FixedSalaryPerDay)

\* C4 witness: a logged Saturday that is a holiday, in the period.
WitC4_LoggedHolidaySaturday ==
    /\ HasBreakdown
    /\ \E k \in 1..Len(Details) :
          /\ IsHolidayDate(Details[k].date)
          /\ IsSaturday(Details[k].date)
          /\ Details[k].in \in LogTimes
          /\ Details[k].status = S_HolidaySaturday

\* C5: a holiday Saturday is never "Unlogged Saturday", a Sunday is never
\* "Absent" and never the day the grace rule converts.
InvC5_Precedence ==
    HasBreakdown =>
        \A k \in 1..Len(Details) :
            /\ (IsHolidayDate(Details[k].date) /\ IsSaturday(Details[k].date))
                  => Details[k].status # S_UnloggedSaturday
            /\ IsSunday(Details[k].date)
                  => Details[k].status \notin {S_Absent, S_AutoGranted}

\* C5 witness: an unlogged holiday Saturday and an unlogged Sunday in one
\* breakdown, with a weekday absence that the grace rule converted.
WitC5_UnloggedHolidaySaturday ==
    /\ HasBreakdown
    /\ \E k \in 1..Len(Details) :
          /\ IsHolidayDate(Details[k].date) /\ IsSaturday(Details[k].date)
          /\ Details[k].in = StrNA
    /\ \E k \in 1..Len(Details) : IsSunday(Details[k].date) /\ Details[k].in = StrNA
    /\ \E k \in 1..Len(Details) : Details[k].status = S_AutoGranted

\* The time-in of a breakdown record is a stored, non-empty string.
HasTimeIn(day_info) == day_info.in \notin {StrNA, None, EmptyStr}

\* C6 as claimed: the worked-Saturday counter is the number of non-holiday
\* Saturdays of the period with a logged time-in, and a holiday Saturday
\* sets the holiday-Saturday flag.
CexC6_WorkedSaturdaysExcludeHolidays ==
    HasBreakdown =>
        /\ result.locals.actual_working_saturdays =
              Cardinality({k \in 1..Len(Details) :
                             /\ IsSaturday(Details[k].date)
                             /\ ~IsHolidayDate(Details[k].date)
                             /\ HasTimeIn(Details[k])})
        /\ (\E k \in 1..Len(Details) :
               IsSaturday(Details[k].date) /\ IsHolidayDate(Details[k].date))
              => result.locals.saturday_holiday = 1

\* The stored logs without those of public-holiday dates.
LogsOffHolidays == {r \in attendance_logs : ~IsHolidayDate(r.date)}

\* C7 as claimed: late_count is what it would be were no log stored for
\* any holiday, and no holiday is an absence or the grace day.
CexC7_HolidayNeverLate ==
    HasBreakdown =>
        /\ result.locals.late_count =
              calculate_monthly_salary(settings, LogsOffHolidays, holidays,
                                       today).locals.late_count
        /\ \A k \in 1..Len(Details) :
              IsHolidayDate(Details[k].date)
                 => Details[k].status \notin {S_Absent, S_AutoGranted}

\* C9: no record of a breakdown has a negative pay contribution, neither as
\* added to the total nor as shown (rounded) in the record.
InvC9_ContributionNonNegative ==
    HasBreakdown =>
        \A k \in 1..Len(Details) :
            /\ Details[k].daily_pay_contribution >= 0
            /\ result.locals.contributions[k] >= 0

\* C9 witness: the hourly cut exceeds the daily salary, a late day was
\* floored to 0, and the grace pass has rewritten a record.
WitC9_FlooredAndGraced ==
    /\ HasBreakdown
    /\ settings.hourly_rate * Unit > FixedSalaryPerDay
    /\ \E k \in 1..Len(Details) :
          /\ ContainsLate(Details[k].penalty_reason)
          /\ Details[k].daily_pay_contribution = 0
    /\ \E k \in 1..Len(Details) :
          /\ Details[k].status = S_AutoGranted
          /\ Details[k].daily_pay_contribution = Round2(FixedSalaryPerDay)

\* The days of the breakdown that the rule table made late instances.
LateDays == {k \in 1..Len(Details) : ContainsLate(Details[k].penalty_reason)}

\* C10: with n the number of late days, late_count is n and the amount
\* taken off the total between the loop and the grace pass is q times
\* fixed_salary_per_day for the q with 3q <= n < 3q + 3 (nothing for n < 3);
\* the summary reports n, q and that amount.
InvC10_LatePenalty ==
    HasBreakdown =>
        LET n == Cardinality(LateDays)
            cut == result.locals.total_after_loop - result.locals.total_after_late
        IN  /\ result.locals.late_count = n
            /\ \E q \in 0..n :
                  /\ 3 * q <= n /\ n < 3 * q + 3
                  /\ cut = q * FixedSalaryPerDay
                  /\ result.report.summary[2] =
                        <<"Total Late Instances: ", n, q, Round2(q * FixedSalaryPerDay)>>
            /\ n < 3 => cut = 0

\* C10 witness: three late days cost one daily salary.
WitC10_ThreeLates ==
    /\ HasBreakdown
    /\ Cardinality(LateDays) = 3
    /\ FixedSalaryPerDay > 0
    /\ result.locals.total_after_loop - result.locals.total_after_late = FixedSalaryPerDay

\* The plain weekday absences of the breakdown: records of non-holiday
\* weekdays without a time-in.
PlainAbsences ==
    {k \in 1..Len(Details) :
        /\ ~IsSaturday(Details[k].date) /\ ~IsSunday(Details[k].date)
        /\ ~IsHolidayDate(Details[k].date)
        /\ ~HasTimeIn(Details[k])}

\* C12: when the period has a plain weekday absence, the earliest one and
\* no other record ends "Paid Day Off (Auto Granted)" with contribution
\* fixed_salary_per_day (added to the total once), and every later absence
\* stays "Absent" with contribution 0; when it has none, no record is
\* auto-granted and nothing is added.
InvC12_GraceFirstAbsence ==
    HasBreakdown =>
        LET granted == {k \in 1..Len(Details) : Details[k].status = S_AutoGranted}
            added == result.locals.total_after_grace - result.locals.total_after_late
        IN  IF PlainAbsences = {}
            THEN granted = {} /\ added = 0
            ELSE LET first == CHOOSE k \in PlainAbsences : \A j \in PlainAbsences : k <= j
                 IN  /\ granted = {first}
                     /\ Details[first].daily_pay_contribution = Round2(FixedSalaryPerDay)
                     /\ added = FixedSalaryPerDay
                     /\ \A k \in PlainAbsences \ {first} :
                           /\ Details[k].status = S_Absent
                           /\ Details[k].daily_pay_contribution = 0
                           /\ result.locals.contributions[k] = 0

\* C12 witness: a breakdown whose first plain absence comes after a logged
\* weekday and is followed by a later absence.
WitC12_LaterAbsenceStays ==
    /\ HasBreakdown
    /\ FixedSalaryPerDay > 0
    /\ \E i, j, k \in 1..Len(Details) :
          /\ i < j /\ j < k
          /\ Details[i].status \in {S_OnTime, S_Late}
          /\ PlainAbsences \cap (1..j) = {j}
          /\ Details[j].status = S_AutoGranted
          /\ Details[k].status = S_Absent

\* A breakdown without any plain weekday absence.
NoPlainAbsence == HasBreakdown /\ PlainAbsences = {}

\* What the Saturday-quota step (lines 364-373) takes off the total.
SaturdayStepCut ==
    result.locals.total_after_grace - result.locals.total_calculated_salary

\* C13 as claimed: without a holiday Saturday and with fewer than two
\* worked Saturdays, the Saturday step takes (2 - worked) daily salaries off
\* the total when the grace day went to an absence and one daily salary less
\* when it did not; otherwise it deducts nothing.
CexC13_SaturdayQuota ==
    HasBreakdown =>
        LET worked == result.locals.actual_working_saturdays
        IN  IF result.locals.saturday_holiday = 0 /\ worked < 2
            THEN IF result.locals.grace_applied
                 THEN SaturdayStepCut = (2 - worked) * FixedSalaryPerDay
                 ELSE SaturdayStepCut = (2 - worked - 1) * FixedSalaryPerDay
            ELSE /\ result.locals.saturday_deduction = 0
                 /\ SaturdayStepCut <= 0

\* C14 as claimed: the daily salary the grace pass adds for an absence and
\* the daily salary the Saturday step adds are never both added to one
\* total: at most one grace credit is spent.
CexC14_OneGraceCredit ==
    HasBreakdown =>
        LET grace_credit == result.locals.total_after_grace - result.locals.total_after_late
            saturday_credit == IF SaturdayStepCut < 0 THEN 0 - SaturdayStepCut ELSE 0
        IN  /\ ~(grace_credit > 0 /\ saturday_credit > 0)
            /\ grace_credit + saturday_credit <= FixedSalaryPerDay

\* The summary has the line "One auto-granted paid day off applied."
SummaryHasGraceLine ==
    \E k \in 1..Len(result.report.summary) :
        result.report.summary[k] = <<"One auto-granted paid day off applied.">>

\* Some record of the breakdown has the status "Paid Day Off (Auto Granted)".
HasAutoGrantedRecord == \E k \in 1..Len(Details) : Details[k].status = S_AutoGranted

\* C26 as claimed: the summary has the line "One auto-granted paid day off
\* applied." if and only if some record of the breakdown has the status
\* "Paid Day Off (Auto Granted)".
CexC26_GraceLineIffGranted ==
    HasBreakdown => (SummaryHasGraceLine <=> HasAutoGrantedRecord)

\* What the code does: every report with a breakdown has the line, with or
\* without an auto-granted record.
GraceLineAlways == HasBreakdown => SummaryHasGraceLine

\* ------------------------------------------------------------------------
\* Properties of get_start_end_dates_for_period (specification SpecPeriod)
\* ------------------------------------------------------------------------

\* The period the rule gives for start day s, end day e and reference
\* date <<y, m, d>>.
RulePeriod(s, e, ref) ==
    IF ref[3] >= s
    THEN [start |-> <<ref[1], ref[2], s>>,
          end   |-> IF ref[2] = 12 THEN <<ref[1] + 1, 1, e>> ELSE <<ref[1], ref[2] + 1, e>>]
    ELSE [start |-> IF ref[2] = 1 THEN <<ref[1] - 1, 12, s>> ELSE <<ref[1], ref[2] - 1, s>>,
          end   |-> <<ref[1], ref[2], e>>]

\* Strict order of 'YYYY-MM-DD' strings.
StrLT(a, b) == StrLE(a, b) /\ a # b

\* C2 as claimed: for every start and end day in 1..31 and every reference
\* date the resolver returns the period of the rule, with start <= end.
CexC2_PeriodRuleEverywhere ==
    pc = "resolved" =>
        LET rule == RulePeriod(settings.month_start_day, settings.month_end_day,
                               FromOrdinal(today))
        IN  /\ result.ok
            /\ result.start = rule.start
            /\ result.end = rule.end
            /\ StrLE(result.start, result.end)

\* Whenever the resolver returns, it returns the period of the rule.
PeriodRuleWhenReturned ==
    (pc = "resolved" /\ result.ok) =>
        LET rule == RulePeriod(settings.month_start_day, settings.month_end_day,
                               FromOrdinal(today))
        IN  /\ result.start = rule.start
            /\ result.end = rule.end
            /\ StrLT(result.start, result.end)

\* The reference date lies inside the returned period.
ReferenceInside ==
    /\ StrLE(result.start, FromOrdinal(today))
    /\ StrLE(FromOrdinal(today), result.end)

\* C24 as claimed: whenever a period is returned, for any start and end day
\* in 1..31, the reference date lies inside it.
CexC24_ReferenceAlwaysInside ==
    (pc = "resolved" /\ result.ok) => ReferenceInside

\* C24, amended: whenever a period is returned, the reference date lies
\* inside it exactly when its day is on or after the start day or on or
\* before the end day; that is every reference date when the end day is at
\* least the start day minus one.
ThmC24_ReferenceInsideUnlessGap ==
    (pc = "resolved" /\ result.ok) =>
        /\ ReferenceInside <=>
              \/ FromOrdinal(today)[3] >= settings.month_start_day
              \/ FromOrdinal(today)[3] <= settings.month_end_day
        /\ settings.month_end_day >= settings.month_start_day - 1 => ReferenceInside

\* C24 witness: a period was returned for a policy whose end day is not the
\* start day minus one and a reference date before the start day, and the
\* reference date lies inside it.
WitC24_InsideOtherPolicy ==
    /\ pc = "resolved"
    /\ result.ok
    /\ settings.month_end_day # settings.month_start_day - 1
    /\ FromOrdinal(today)[3] < settings.month_start_day
    /\ ReferenceInside

\* The reference dates the period of a state is compared with: the window
\* of the specification and a month on either side.
NeighbourDates == (RefFirst - 31) .. (RefFirst + RefSpan + 30)

\* Date d lies inside period p.
InPeriod(d, p) == StrLE(p.start, FromOrdinal(d)) /\ StrLE(FromOrdinal(d), p.end)

\* C25: with start day 28 and end day 27 the resolver returns a period for
\* every reference date, the reference date lies inside it, any other
\* reference date resolves to the same period or to one that ends before or
\* starts after it, every date inside the period resolves to it, and the day
\* after its end date resolves to a period that starts on that day.
ThmC25_DefaultPeriodsPartition ==
    (/\ pc = "resolved"
     /\ settings.month_start_day = 28
     /\ settings.month_end_day = 27) =>
        /\ result.ok
        /\ InPeriod(today, result)
        /\ \A d \in NeighbourDates :
              LET q == get_start_end_dates_for_period(settings, d)
              IN  /\ q.ok
                  /\ \/ q = result
                     \/ StrLT(q.end, result.start)
                     \/ StrLT(result.end, q.start)
                  /\ InPeriod(d, result) => q = result
        /\ LET next_day == ToOrdinal(result.end) + 1
               n == get_start_end_dates_for_period(settings, next_day)
           IN  n.ok /\ n.start = FromOrdinal(next_day)

\* C25 witness: with the default policy a reference date in January before
\* the 28th resolved to the period that started in December of the year
\* before.
WitC25_YearRollover ==
    /\ pc = "resolved"
    /\ settings.month_start_day = 28
    /\ settings.month_end_day = 27
    /\ result.ok
    /\ result.start[2] = 12
    /\ result.end[2] = 1
    /\ result.start[1] + 1 = result.end[1]
    /\ FromOrdinal(today)[2] = 1

\* ------------------------------------------------------------------------
\* Properties of get_daily_pay_and_penalties (specification SpecPay)
\* ------------------------------------------------------------------------

TimeIn == args.log_entry[1].time_in

MissingTimeIn == args.log_entry = None \/ TimeIn \in {None, EmptyStr}

\* A well-formed time-in: HH:MM:SS with HH <= 23, MM <= 59, SS <= 59.
WellFormedTimeIn ==
    /\ ~MissingTimeIn
    /\ Len(TimeIn) = 3
    /\ TimeIn[1] <= 23 /\ TimeIn[2] <= 59 /\ TimeIn[3] <= 59

\* The rule table's late column, on the fields of the time-in.
TableLate ==
    \/ TimeIn[1] \in {10, 11}
    \/ TimeIn[1] = 9 /\ (TimeIn[2] > 15 \/ (TimeIn[2] = 15 /\ TimeIn[3] > 0))

\* The rule table's deduction in hours.
TableHoursCut == IF TimeIn[1] = 11 THEN 2 ELSE IF TimeIn[1] = 10 THEN 1 ELSE 0

Max0(x) == IF x < 0 THEN 0 ELSE x

\* C8 as claimed: the rule table as written, the hourly cuts not floored.
CexC8_RuleTableUnfloored ==
    pc = "paid" =>
        /\ MissingTimeIn => (result.pay = 0 /\ ~result.late)
        /\ WellFormedTimeIn =>
              IF TimeIn[1] >= 12
              THEN 2 * result.pay = args.fixed_salary_per_day /\ ~result.late
              ELSE /\ result.pay = args.fixed_salary_per_day
                                      - TableHoursCut * args.hourly_rate
                   /\ result.late = TableLate

\* C8 amended: the rule table with the two hourly-cut tiers floored at 0:
\* 11:00 <= t < 12:00 gives max(0, fixedSalaryPerDay - 2 * hourlyRate) and
\* 10:00 <= t < 11:00 gives max(0, fixedSalaryPerDay - hourlyRate).
ThmC8_RuleTableFloored ==
    pc = "paid" =>
        /\ MissingTimeIn => (result.pay = 0 /\ ~result.late)
        /\ WellFormedTimeIn =>
              IF TimeIn[1] >= 12
              THEN 2 * result.pay = args.fixed_salary_per_day /\ ~result.late
              ELSE /\ result.pay = Max0(args.fixed_salary_per_day
                                           - TableHoursCut * args.hourly_rate)
                   /\ result.late = TableLate

\* C8 witness: a time-in of 11:00:00 whose two-hour cut exceeds the daily
\* salary pays 0 and is a late instance.
WitC8_CutAboveDailySalary ==
    /\ pc = "paid"
    /\ WellFormedTimeIn
    /\ TimeIn = <<11, 0, 0>>
    /\ args.fixed_salary_per_day > 0
    /\ 2 * args.hourly_rate > args.fixed_salary_per_day
    /\ result.pay = 0
    /\ result.late

\* ------------------------------------------------------------------------
\* Specification SpecScenarioA: the test block's month. Policy 60000 / 250 /
\* 28 / 27, calculation on 2025-08-04 (period 2025-07-28 to 2025-08-27),
\* every weekday logged at 09:00:00 except six logged at 10:30:00, with or
\* without the test block's worked Saturday and its weekday holiday.
\* ------------------------------------------------------------------------

ScenarioToday == <<2025, 8, 4>>

ScenarioStart == <<2025, 7, 28>>

ScenarioEnd == <<2025, 8, 27>>

\* The six late dates are drawn from the first LateCandidates weekdays of
\* the period (the test block's six lie in the first ten).
LateCandidates == 10

ScenarioLates == 6

normal_time == <<9, 0, 0>>

late_time == <<10, 30, 0>>

out_time == <<17, 0, 0>>

ScenarioWeekdays ==
    {n \in ToOrdinal(ScenarioStart)..ToOrdinal(ScenarioEnd) : Weekday(n) < 5}

\* The weekdays of the period with fewer than LateCandidates weekdays
\* before them.
ScenarioLateCandidates ==
    {n \in ScenarioWeekdays :
        Cardinality({m \in ScenarioWeekdays : m < n}) < LateCandidates}

\* Lines 419-426: one log per weekday of the period.
ScenarioLogs(late_dates) ==
    {Row(strftime(n), IF n \in late_dates THEN late_time ELSE normal_time, out_time) :
        n \in ScenarioWeekdays}

\* Lines 429-430.
ScenarioSaturdayLog == Row(<<2025, 8, 2>>, normal_time, <<13, 0, 0>>)

\* Line 433.
ScenarioHoliday == Holiday(<<2025, 8, 14>>, "Independence Day")

InitScenarioA ==
    /\ settings = [fixed_monthly_salary |-> DefaultSalary, hourly_rate |-> DefaultRate,
                   month_start_day |-> 28, month_end_day |-> 27]
    /\ today = ToOrdinal(ScenarioToday)
    /\ \E late_dates \in {X \in SUBSET ScenarioLateCandidates : Cardinality(X) = ScenarioLates},
          sat \in SUBSET {ScenarioSaturdayLog} :
          attendance_logs = ScenarioLogs(late_dates) \cup sat
    /\ holidays \in SUBSET {ScenarioHoliday}
    /\ args = None
    /\ result = None
    /\ pc = "start"

SpecScenarioA == InitScenarioA /\ [][Next]_vars

\* C11 as claimed: scenario A has a late count of 6 and a late deduction
\* total of one fixed_salary_per_day (2000).
CexC11_ScenarioOneDayCut ==
    HasBreakdown =>
        /\ result.locals.late_count = 6
        /\ result.locals.late_deduction_total = FixedSalaryPerDay
        /\ result.locals.late_deduction_total = 2000 * Unit

\* C11 amended: scenario A has a late count of 6, two late deductions
\* (6 // 3) and a late deduction total of two fixed_salary_per_day (4000),
\* which the summary line reports.
ThmC11_ScenarioTwoDaysCut ==
    HasBreakdown =>
        /\ result.locals.late_count = 6
        /\ result.locals.late_deductions_count = 2
        /\ result.locals.late_deduction_total = 2 * FixedSalaryPerDay
        /\ result.locals.late_deduction_total = 4000 * Unit
        /\ result.locals.total_after_loop - result.locals.total_after_late = 4000 * Unit
        /\ result.report.summary[2] = <<"Total Late Instances: ", 6, 2, 4000 * Unit>>

\* C11 witness: the report of scenario A on the test block's own six late
\* dates: period 2025-07-28 to 2025-08-27, every weekday logged, exactly six
\* of them at 10:30:00 and the others at 09:00:00.
WitC11_TestBlockDates ==
    /\ HasBreakdown
    /\ result.report.period_start = ScenarioStart
    /\ result.report.period_end = ScenarioEnd
    /\ {Details[k].date : k \in {j \in 1..Len(Details) : Details[j].in = late_time}}
          = {<<2025, 7, 28>>, <<2025, 7, 30>>, <<2025, 8, 1>>,
             <<2025, 8, 5>>, <<2025, 8, 7>>, <<2025, 8, 8>>}
    /\ \A k \in 1..Len(Details) :
          Weekday(ToOrdinal(Details[k].date)) < 5 => Details[k].in \in {normal_time, late_time}

\* ------------------------------------------------------------------------
\* Specification SpecMonth: whole periods of 28 to 31 days under the 28 / 27
\* policy. Every weekday of the period is logged on time, except that the
\* first few are not logged and the next few are logged late; the first few
\* Saturdays are worked; there are no holidays.
\* ------------------------------------------------------------------------

\* <<fixed_monthly_salary, hourly_rate>>: the test block's, and one whose
\* hourly cut exceeds the daily salary.
MonthPolicies == {<<60000, 250>>, <<3000, 250>>}

\* The calculation days, for periods of 28, 29, 30 and 31 days and one that
\* starts in the year before: 2025-02-28 to 2025-03-27, 2024-02-28 to
\* 2024-03-27, 2025-04-28 to 2025-05-27, 2025-05-28 to 2025-06-27 and
\* 2024-12-28 to 2025-01-27.
MonthRefs == {<<2025, 3, 15>>, <<2024, 3, 15>>, <<2025, 5, 15>>, <<2025, 6, 15>>,
              <<2025, 1, 15>>}

MaxAbsent == 2

MaxLate == 23

MaxSaturdays == 3

\* The dates of [start, end] with a weekday in days, ascending, as ordinals.
DatesOn(period, days) ==
    {n \in ToOrdinal(period.start)..ToOrdinal(period.end) : Weekday(n) \in days}

\* The number of dates of D before n.
RankIn(D, n) == Cardinality({m \in D : m < n})

MonthLogs(period, absent, late, saturdays) ==
    LET weekdays == DatesOn(period, 0..4)
    IN  {Row(strftime(n),
             IF RankIn(weekdays, n) < absent + late THEN late_time ELSE normal_time,
             out_time) : n \in {m \in weekdays : RankIn(weekdays, m) >= absent}}
        \cup {Row(strftime(n), normal_time, out_time) :
                n \in {m \in DatesOn(period, {5}) : RankIn(DatesOn(period, {5}), m) < saturdays}}

InitMonth ==
    /\ \E p \in MonthPolicies :
          settings = [fixed_monthly_salary |-> p[1], hourly_rate |-> p[2],
                      month_start_day |-> 28, month_end_day |-> 27]
    /\ today \in {ToOrdinal(d) : d \in MonthRefs}
    /\ \E absent \in 0..MaxAbsent, late \in 0..MaxLate, saturdays \in 0..MaxSaturdays :
          attendance_logs =
             MonthLogs(get_start_end_dates_for_period(settings, today),
                       absent, late, saturdays)
    /\ holidays = {}
    /\ args = None
    /\ result = None
    /\ pc = "start"

SpecMonth == InitMonth /\ [][Next]_vars

\* The records left "Absent": the absences the grace pass did not convert.
UngracedAbsences == {k \in 1..Len(Details) : Details[k].status = S_Absent}

\* C15 as claimed: the total is the monthly salary less a daily salary for
\* every un-graced absence, less the late deduction, less what the Saturday
\* step took; a period without absence or late instance and with two worked
\* Saturdays pays exactly the monthly salary.
CexC15_TotalFromMonthlySalary ==
    HasBreakdown =>
        /\ result.locals.total_calculated_salary =
              settings.fixed_monthly_salary * Unit
                 - Cardinality(UngracedAbsences) * FixedSalaryPerDay
                 - result.locals.late_deduction_total
                 - SaturdayStepCut
        /\ (/\ PlainAbsences = {}
            /\ result.locals.late_count = 0
            /\ result.locals.actual_working_saturdays >= 2)
              => result.report.total_salary = settings.fixed_monthly_salary * Unit

\* A 30-day period with every weekday logged on time and two Saturdays
\* worked.
FullAttendanceThirtyDays ==
    /\ HasBreakdown
    /\ Len(Details) = 30
    /\ PlainAbsences = {}
    /\ result.locals.late_count = 0
    /\ result.locals.actual_working_saturdays = 2

\* The total by the aggregation's arithmetic: the daily contributions, less
\* the late deduction, plus the grace day, less what the Saturday step took.
UnclampedTotal ==
    result.locals.total_after_loop - result.locals.late_deduction_total
        + (IF result.locals.grace_applied THEN FixedSalaryPerDay ELSE 0)
        - SaturdayStepCut

\* C18: the reported total is the aggregation's arithmetic rounded to the
\* cent and nothing else: it is negative whenever the deductions exceed the
\* contributions.
InvC18_TotalNotFloored ==
    HasBreakdown =>
        /\ result.report.total_salary - UnclampedTotal \in -1..1
        /\ UnclampedTotal < 0 => result.report.total_salary < 0

\* C18 witness: a positive salary and hourly rate, every weekday logged
\* late for no pay, and a negative total after the late deduction.
WitC18_NegativeTotal ==
    /\ HasBreakdown
    /\ settings.fixed_monthly_salary > 0 /\ settings.hourly_rate > 0
    /\ result.locals.late_deduction_total > result.locals.total_after_loop
    /\ result.report.total_salary < 0

\* ------------------------------------------------------------------------
\* Specification SpecUnconfigured: a calculation over a settings table whose
\* salary or hourly rate is '0' (the defaults initialize_database inserts)
\* or has no row (get_setting returns None), with stored logs and holidays.
\* ------------------------------------------------------------------------

\* A value of the settings table, or None for a key without a row.
UnsetSalaries == {None, <<0>>, <<DefaultSalary>>}

UnsetRates == {None, <<0>>, <<DefaultRate>>}

\* <<month_start_day, month_end_day>>: the defaults, the window's period and
\* an end day the reference month lacks.
UnsetPolicyDays == {<<28, 27>>, <<31, 9>>, <<5, 31>>}

MaxStoredLogs == 2

\* The settings table as a function of the keys that have a row.
SettingsTable(salary, rate, days) ==
    LET keys == {"month_start_day", "month_end_day"}
                   \cup (IF salary # None THEN {"fixed_monthly_salary"} ELSE {})
                   \cup (IF rate # None THEN {"hourly_rate"} ELSE {})
    IN  [k \in keys |-> IF k = "fixed_monthly_salary" THEN salary[1]
                        ELSE IF k = "hourly_rate" THEN rate[1]
                        ELSE IF k = "month_start_day" THEN days[1]
                        ELSE days[2]]

InitUnconfigured ==
    /\ \E salary \in UnsetSalaries, rate \in UnsetRates, days \in UnsetPolicyDays :
          /\ salary \in {None, <<0>>} \/ rate \in {None, <<0>>}
          /\ settings = SettingsTable(salary, rate, days)
    /\ today = ToOrdinal(Today)
    /\ \E D \in {X \in SUBSET WindowDates : Cardinality(X) <= MaxStoredLogs} :
          \E f \in [D -> LogTimes] :
             attendance_logs = {Row(d, f[d], None) : d \in D}
    /\ \E H \in {X \in SUBSET HolidayDates : Cardinality(X) <= MaxHolidays} :
          holidays = {Holiday(d, "Eid") : d \in H}
    /\ args = None
    /\ result = None
    /\ pc = "start"

SpecUnconfigured == InitUnconfigured /\ [][Next]_vars

\* The stored value of a setting is 0, or the setting has no row.
ZeroOrAbsent(key) == key \notin DOMAIN settings \/ settings[key] = 0

Unconfigured == ZeroOrAbsent("fixed_monthly_salary") \/ ZeroOrAbsent("hourly_rate")

\* The configuration-missing report: total 0, no record, the message, and
\* nothing else (no period, no day classified).
IsConfigMissingReport(r) ==
    /\ r.outcome = "report"
    /\ DOMAIN r = {"outcome", "report"}
    /\ r.report = [total_salary |-> 0, details |-> << >>, summary |-> ConfigMissing]

\* C16 as claimed: whenever the salary or the hourly rate is 0 or absent,
\* the calculation returns the configuration-missing report, whatever else
\* is stored.
CexC16_UnconfiguredReport ==
    (pc = "done" /\ Unconfigured) => IsConfigMissingReport(result)

\* Whenever the salary or the hourly rate is 0 or absent and the period
\* resolver returns, the calculation returns the configuration-missing
\* report.
UnconfiguredReportWhenResolved ==
    (pc = "done" /\ Unconfigured /\ get_start_end_dates_for_period(settings, today).ok)
        => IsConfigMissingReport(result)

\* An unconfigured policy with stored logs and a holiday got the
\* configuration-missing report.
UnconfiguredWithData ==
    /\ pc = "done"
    /\ "hourly_rate" \notin DOMAIN settings
    /\ attendance_logs # {} /\ holidays # {}
    /\ IsConfigMissingReport(result)

\* ------------------------------------------------------------------------
\* Specification SpecTwice: calculate_monthly_salary called twice in a row
\* on one database and one reference date.
\* ------------------------------------------------------------------------

InitTwice ==
    /\ \E c \in Configs :
          settings = [fixed_monthly_salary |-> c[1], hourly_rate |-> c[2],
                      month_start_day |-> c[3], month_end_day |-> c[4]]
    /\ today = ToOrdinal(Today)
    /\ \E D \in {X \in SUBSET WindowDates : Cardinality(X) <= MaxStoredLogs} :
          \E f \in [D -> LogTimes] :
             attendance_logs = {Row(d, f[d], None) : d \in D}
    /\ \E H \in {X \in SUBSET HolidayDates : Cardinality(X) <= MaxHolidays} :
          holidays = {Holiday(d, "Eid") : d \in H}
    /\ args = None
    /\ result = None
    /\ pc = "start"

\* The second call; args keeps what the first call returned.
CalculateAgain ==
    /\ pc = "done"
    /\ args' = <<result>>
    /\ result' = calculate_monthly_salary(settings, attendance_logs, holidays, today)
    /\ pc' = "again"
    /\ attendance_logs' = rows_after_select(attendance_logs)
    /\ holidays' = rows_after_select(holidays)
    /\ UNCHANGED <<settings, today>>

NextTwice == Calculate \/ CalculateAgain

SpecTwice == InitTwice /\ [][NextTwice]_vars

MalformedTimes == {<<1>>, <<25, 0, 0>>}

\* <<fixed_monthly_salary, hourly_rate, month_start_day, month_end_day>>:
\* the period 2025-05-31 to 2025-06-09, which holds the whole window.
MalformedConfigs == {<<60000, 250, 31, 9>>}

InitMalformed ==
    /\ \E c \in MalformedConfigs :
          settings = [fixed_monthly_salary |-> c[1], hourly_rate |-> c[2],
                      month_start_day |-> c[3], month_end_day |-> c[4]]
    /\ today = ToOrdinal(Today)
    /\ \E bad \in WindowDates, t \in MalformedTimes :
          \E D \in {X \in SUBSET (WindowDates \ {bad}) : Cardinality(X) <= MaxStoredLogs} :
             \E f \in [D -> LogTimes] :
                attendance_logs = {Row(bad, t, None)} \cup {Row(d, f[d], None) : d \in D}
    /\ \E H \in {X \in SUBSET HolidayDates : Cardinality(X) <= MaxHolidays} :
          holidays = {Holiday(d, "Eid") : d \in H}
    /\ args = None
    /\ result = None
    /\ pc = "start"

SpecMalformed == InitMalformed /\ [][Next]_vars

\* A stored time-in that is present and is not HH:MM:SS with HH <= 23,
\* MM <= 59 and SS <= 59.
IsMalformed(t) ==
    /\ t \notin {None, EmptyStr}
    /\ ~(Len(t) = 3 /\ t[1] <= 23 /\ t[2] <= 59 /\ t[3] <= 59)

MalformedDates == {r.date : r \in {x \in attendance_logs : IsMalformed(x.time_in)}}

\* The stored logs with every malformed time-in replaced by t.
LogsWellFormed(t) ==
    {IF IsMalformed(r.time_in) THEN Row(r.date, t, r.time_out) ELSE r : r \in attendance_logs}

\* Every record of a date without a malformed log is what it is when the
\* malformed time-in is replaced by a well-formed one.
OtherDaysUntouched ==
    \A t \in LogTimes :
        LET alt == calculate_monthly_salary(settings, LogsWellFormed(t), holidays, today)
        IN  /\ alt.outcome = "report"
            /\ Len(alt.report.details) = Len(Details)
            /\ \A k \in 1..Len(Details) :
                  Details[k].date \notin MalformedDates => Details[k] = alt.report.details[k]

\* C19 as claimed: the calculation completes, every day with a malformed
\* time-in has the reason "Invalid IN Time Format", contribution 0 and is no
\* late instance, and the other days are untouched.
CexC19_MalformedAlwaysInvalid ==
    pc = "done" =>
        /\ HasBreakdown
        /\ \A k \in 1..Len(Details) :
              Details[k].date \in MalformedDates =>
                 /\ Details[k].penalty_reason = R_Invalid
                 /\ result.locals.contributions[k] = 0
                 /\ Details[k].daily_pay_contribution = 0
                 /\ k \notin LateDays
        /\ result.locals.late_count = Cardinality(LateDays)
        /\ OtherDaysUntouched

\* C19 amended: the calculation completes and the other days are untouched;
\* a day with a malformed time-in is no late instance; on a weekday or
\* Saturday that is not a holiday its record has the reason "Invalid IN Time
\* Format" and contribution 0; on a Sunday or a public holiday it keeps its
\* paid-day-off status and contributes fixed_salary_per_day.
ThmC19_MalformedIsolated ==
    pc = "done" =>
        /\ HasBreakdown
        /\ \A k \in 1..Len(Details) :
              Details[k].date \in MalformedDates =>
                 /\ k \notin LateDays
                 /\ IF IsSunday(Details[k].date) \/ IsHolidayDate(Details[k].date)
                    THEN /\ result.locals.contributions[k] = FixedSalaryPerDay
                         /\ Details[k].status \in {S_Sunday} \cup HolidayStatuses
                    ELSE /\ Details[k].penalty_reason = R_Invalid
                         /\ result.locals.contributions[k] = 0
                         /\ Details[k].daily_pay_contribution = 0
        /\ result.locals.late_count = Cardinality(LateDays)
        /\ OtherDaysUntouched

\* C19 witness: '25:00:00' stored for a plain weekday of the period, whose
\* record has the reason and no pay, next to a late day and a grace day.
WitC19_InvalidWeekday ==
    /\ HasBreakdown
    /\ \E k \in 1..Len(Details) :
          /\ Details[k].in = <<25, 0, 0>>
          /\ ~IsSaturday(Details[k].date) /\ ~IsSunday(Details[k].date)
          /\ ~IsHolidayDate(Details[k].date)
          /\ Details[k].penalty_reason = R_Invalid
          /\ Details[k].daily_pay_contribution = 0
    /\ \E k \in 1..Len(Details) : Details[k].status = S_Late
    /\ \E k \in 1..Len(Details) : Details[k].status = S_AutoGranted

\* ------------------------------------------------------------------------
\* Specification SpecLog: the attendance logging operations on a fresh
\* database, over a clock that moves through a few times of a few days.
\* args.now is datetime.now() as an 'HH:MM:SS' string, today is
\* date.today(), result is the message of the last operation and pc names
\* that operation.
\* ------------------------------------------------------------------------

\* SELECT * FROM attendance_logs WHERE date = ?; fetchone(): None or a row.
get_attendance_log_by_date(logs, date_str) == DictGet(logs, date_str)

\* A faulty insert_attendance_log on a table without the UNIQUE date.
insert_attendance_log_duplicating(logs, date_str, time_in_str) ==
    logs \cup {Row(date_str, time_in_str, None)}

\* INSERT INTO attendance_logs (date, time_in); the UNIQUE date and the
\* NOT NULL time_in raise IntegrityError, which leaves the table as it was.
insert_attendance_log(logs, date_str, time_in_str) ==
    IF get_attendance_log_by_date(logs, date_str) # None \/ time_in_str = None
    THEN logs
    ELSE logs \cup {Row(date_str, time_in_str, None)}

\* A faulty update_attendance_log_out_time without the WHERE clause.
update_attendance_log_out_time_all(logs, date_str, time_out_str) ==
    {[r EXCEPT !.time_out = time_out_str] : r \in logs}

\* UPDATE attendance_logs SET time_out = ? WHERE date = ?
update_attendance_log_out_time(logs, date_str, time_out_str) ==
    {IF r.date = date_str THEN [r EXCEPT !.time_out = time_out_str] ELSE r : r \in logs}

\* logic_manager.handle_app_startup_in_log: the table it leaves and the
\* message it returns.
handle_app_startup_in_log(logs, today_str, current_time_str) ==
    LET today_record == get_attendance_log_by_date(logs, today_str)
    IN  IF today_record = None
        THEN [logs |-> insert_attendance_log(logs, today_str, current_time_str),
              message |-> "Logged IN automatically for today."]
        ELSE IF today_record[1].time_out # None
        THEN [logs |-> update_attendance_log_out_time(logs, today_str, None),
              message |-> "You are back IN. Previous OUT time cleared."]
        ELSE [logs |-> logs,
              message |-> "You are already logged IN for today. Welcome back!"]

\* A faulty record_manual_out that writes the OUT time without looking for
\* today's IN time.
record_manual_out_unguarded(logs, today_str, current_time_str) ==
    [logs |-> update_attendance_log_out_time(logs, today_str, current_time_str),
     message |-> "Manual OUT recorded for today."]

\* logic_manager.record_manual_out
record_manual_out(logs, today_str, current_time_str) ==
    LET today_record == get_attendance_log_by_date(logs, today_str)
    IN  IF today_record # None /\ ~Falsy(today_record[1].time_in)
        THEN [logs |-> update_attendance_log_out_time(logs, today_str, current_time_str),
              message |-> "Manual OUT recorded for today."]
        ELSE [logs |-> logs,
              message |-> "Cannot log OUT: No IN time recorded for today."]

\* UPDATE attendance_logs SET time_in = ?, time_out = ? WHERE date = ?
\* A date without a row matches nothing and the table stays as it was.
update_attendance_log_times(logs, date_str, time_in_str, time_out_str) ==
    {IF r.date = date_str
     THEN [r EXCEPT !.time_in = time_in_str, !.time_out = time_out_str]
     ELSE r : r \in logs}

\* logic_manager.record_manual_in
record_manual_in(logs, today_str, current_time_str) ==
    LET today_record == get_attendance_log_by_date(logs, today_str)
    IN  IF today_record # None
        THEN [logs |-> update_attendance_log_times(logs, today_str, current_time_str, None),
              message |-> "Manual IN recorded. Previous OUT time cleared if set."]
        ELSE [logs |-> insert_attendance_log(logs, today_str, current_time_str),
              message |-> "Manual IN recorded for today."]

\* re.compile(r'^\d{2}:\d{2}:\d{2}$').match: three two-digit fields, whatever
\* their values.
time_pattern_match(time_str) == Len(time_str) = 3

\* logic_manager.update_attendance_entry: the table it leaves, its message
\* and its success flag.
update_attendance_entry(logs, date_str, new_time_in_str, new_time_out_str) ==
    IF Falsy(new_time_in_str)
    THEN [logs |-> logs, message |-> "Error: IN time cannot be empty.", success |-> FALSE]
    ELSE IF ~time_pattern_match(new_time_in_str)
    THEN [logs |-> logs, message |-> "Error: Invalid IN time format. Use HH:MM:SS.",
          success |-> FALSE]
    ELSE IF ~Falsy(new_time_out_str) /\ ~time_pattern_match(new_time_out_str)
    THEN [logs |-> logs, message |-> "Error: Invalid OUT time format. Use HH:MM:SS.",
          success |-> FALSE]
    ELSE [logs |-> update_attendance_log_times(logs, date_str, new_time_in_str,
                       IF Falsy(new_time_out_str) THEN None ELSE new_time_out_str),
          message |-> "Attendance entry updated successfully.", success |-> TRUE]

\* A faulty on_close that logs OUT whatever today's record holds.
on_close_unguarded(logs, today_str, current_time_str) ==
    record_manual_out(logs, today_str, current_time_str)

\* AttendanceApp.on_close: the guard of the window and the record_manual_out
\* it calls; without the call the table stays and no message is shown.
on_close(logs, today_str, current_time_str) ==
    LET today_record == get_attendance_log_by_date(logs, today_str)
    IN  IF /\ today_record # None
           /\ ~Falsy(today_record[1].time_in)
           /\ today_record[1].time_out = None
        THEN record_manual_out(logs, today_str, current_time_str)
        ELSE [logs |-> logs, message |-> ""]

\* The clock readings of a day.
ClockTimes == {<<8, 50, 0>>, <<9, 0, 0>>, <<17, 0, 0>>}

\* The number of days the clock runs through, from Today on.
MaxDays == 3

InitLog ==
    /\ settings = [fixed_monthly_salary |-> 0, hourly_rate |-> 0,
                   month_start_day |-> 28, month_end_day |-> 27]
    /\ attendance_logs = {}
    /\ holidays = {}
    /\ today = ToOrdinal(Today)
    /\ args \in {[now |-> t] : t \in ClockTimes}
    /\ result = ""
    /\ pc = "start"

HandleAppStartup ==
    LET r == handle_app_startup_in_log(attendance_logs, strftime(today), args.now)
    IN  /\ attendance_logs' = r.logs
        /\ result' = r.message
        /\ pc' = "startup"
        /\ UNCHANGED <<settings, holidays, today, args>>

RecordManualIn ==
    LET r == record_manual_in(attendance_logs, strftime(today), args.now)
    IN  /\ attendance_logs' = r.logs
        /\ result' = r.message
        /\ pc' = "manual_in"
        /\ UNCHANGED <<settings, holidays, today, args>>

RecordManualOut ==
    LET r == record_manual_out(attendance_logs, strftime(today), args.now)
    IN  /\ attendance_logs' = r.logs
        /\ result' = r.message
        /\ pc' = "manual_out"
        /\ UNCHANGED <<settings, holidays, today, args>>

OnClose ==
    LET r == on_close(attendance_logs, strftime(today), args.now)
    IN  /\ attendance_logs' = r.logs
        /\ result' = r.message
        /\ pc' = "on_close"
        /\ UNCHANGED <<settings, holidays, today, args>>

\* Time passes within the day.
ClockAdvance ==
    /\ \E t \in ClockTimes :
          /\ strptime_time(t) > strptime_time(args.now)
          /\ args' = [now |-> t]
    /\ pc' = "clock"
    /\ UNCHANGED <<settings, attendance_logs, holidays, today, result>>

\* Midnight passes.
DayAdvance ==
    /\ today < ToOrdinal(Today) + MaxDays - 1
    /\ today' = today + 1
    /\ args' \in {[now |-> t] : t \in ClockTimes}
    /\ pc' = "clock"
    /\ UNCHANGED <<settings, attendance_logs, holidays, result>>

NextLog ==
    \/ HandleAppStartup
    \/ RecordManualIn
    \/ RecordManualOut
    \/ OnClose
    \/ ClockAdvance
    \/ DayAdvance

SpecLog == InitLog /\ [][NextLog]_vars

\* The rows of a table for dates other than date_str.
OtherDates(logs, date_str) == {r \in logs : r.date # date_str}

\* C20: a startup does exactly one of three things to today's record: there
\* is none and it inserts one with time_in = now and no time_out; there is
\* one with a time_out and it clears the time_out and keeps the time_in;
\* there is one without a time_out and it changes nothing. The records of
\* other dates stay as they are.
ThmC20_StartupThreeCases ==
    [][pc' = "startup" =>
          LET date_str == FromOrdinal(today)
              before == {r \in attendance_logs : r.date = date_str}
              after == {r \in attendance_logs' : r.date = date_str}
          IN  /\ OtherDates(attendance_logs', date_str) = OtherDates(attendance_logs, date_str)
              /\ IF before = {}
                 THEN after = {[date |-> date_str, time_in |-> args.now, time_out |-> None]}
                 ELSE \E r \in before :
                         /\ before = {r}
                         /\ IF r.time_out # None
                            THEN after = {[date |-> date_str, time_in |-> r.time_in,
                                           time_out |-> None]}
                            ELSE after = before]_vars

\* C20 witness: a startup has just cleared today's time_out, today's time_in
\* is from an earlier clock reading, and an earlier date's record still has
\* its time_out.
WitC20_BackIn ==
    /\ pc = "startup"
    /\ result = "You are back IN. Previous OUT time cleared."
    /\ \E r \in attendance_logs :
          /\ r.date = FromOrdinal(today)
          /\ r.time_out = None
          /\ r.time_in # args.now
    /\ \E r \in attendance_logs : r.date # FromOrdinal(today) /\ r.time_out # None

\* C21: record_manual_out writes the OUT time only when today's record exists
\* with a time_in, and then only into today's record; otherwise it returns
\* the "Cannot log OUT" message and leaves the table as it was. After every
\* operation no record has a time_out without a time_in.
ThmC21_OutNeedsIn ==
    [][/\ pc' = "manual_out" =>
             LET date_str == FromOrdinal(today)
                 before == {r \in attendance_logs : r.date = date_str}
             IN  IF \E r \in before : ~Falsy(r.time_in)
                 THEN /\ result' = "Manual OUT recorded for today."
                      /\ attendance_logs' = OtherDates(attendance_logs, date_str)
                            \cup {[r EXCEPT !.time_out = args.now] : r \in before}
                 ELSE /\ result' = "Cannot log OUT: No IN time recorded for today."
                      /\ attendance_logs' = attendance_logs
       /\ \A r \in attendance_logs' : r.time_out # None => ~Falsy(r.time_in)]_vars

\* C21 witness: a manual OUT on a day without a record has been refused while
\* an earlier day's record keeps its IN and OUT times.
WitC21_OutRefused ==
    /\ pc = "manual_out"
    /\ result = "Cannot log OUT: No IN time recorded for today."
    /\ \A r \in attendance_logs : r.date # FromOrdinal(today)
    /\ \E r \in attendance_logs : r.time_out # None /\ ~Falsy(r.time_in)

\* C30: a startup or a window close leaves the time_in of today's record as
\* it is, and a startup on a day without a record stores the clock reading
\* as time_in, so that without a manual IN the time_in stays the one of the
\* day's first startup; a window close stores the clock reading as time_out
\* when today's record has a time_in and no time_out, and otherwise leaves
\* the table as it was; after a startup or a manual IN today's record exists
\* with a time_in and without a time_out.
ThmC30_SessionKeepsFirstIn ==
    [][LET date_str == FromOrdinal(today)
           before == {r \in attendance_logs : r.date = date_str}
           after == {r \in attendance_logs' : r.date = date_str}
       IN  /\ pc' \in {"startup", "on_close"} =>
                 /\ \A r \in before : after = {q \in after : q.time_in = r.time_in}
                 /\ before # {} => after # {}
                 /\ OtherDates(attendance_logs', date_str) = OtherDates(attendance_logs, date_str)
           /\ (pc' = "startup" /\ before = {}) =>
                 after = {[date |-> date_str, time_in |-> args.now, time_out |-> None]}
           /\ pc' = "on_close" =>
                 IF \E r \in before : ~Falsy(r.time_in) /\ r.time_out = None
                 THEN after = {[r EXCEPT !.time_out = args.now] : r \in before}
                 ELSE attendance_logs' = attendance_logs
           /\ pc' \in {"startup", "manual_in"} =>
                 /\ after # {}
                 /\ \A r \in after : ~Falsy(r.time_in) /\ r.time_out = None]_vars

\* C30 witness: a window close has left today's record as it was, with the
\* time_out of an earlier clock reading and the time_in of a still earlier
\* one.
WitC30_CloseKeepsOut ==
    /\ pc = "on_close"
    /\ result = ""
    /\ \E r \in attendance_logs :
          /\ r.date = FromOrdinal(today)
          /\ r.time_out # None
          /\ strptime_time(r.time_in) < strptime_time(r.time_out)
          /\ strptime_time(r.time_out) < strptime_time(args.now)

\* ------------------------------------------------------------------------
\* database_manager: the statements that write the three tables
\* ------------------------------------------------------------------------

\* The value insert_attendance_log returns: False on sqlite3.IntegrityError.
insert_attendance_log_returns(logs, date_str, time_in_str) ==
    ~(get_attendance_log_by_date(logs, date_str) # None \/ time_in_str = None)

\* INSERT INTO holidays (holiday_date, description); the UNIQUE holiday_date
\* raises IntegrityError, which leaves the table as it was.
insert_holiday(hols, holiday_date_str, description) ==
    IF HasKey(hols, holiday_date_str)
    THEN hols
    ELSE hols \cup {Holiday(holiday_date_str, description)}

insert_holiday_returns(hols, holiday_date_str, description) ==
    ~HasKey(hols, holiday_date_str)

\* DELETE FROM holidays WHERE holiday_date = ?
delete_holiday(hols, holiday_date_str) ==
    {h \in hols : h.holiday_date # holiday_date_str}

\* INSERT OR REPLACE INTO settings (key, value)
update_setting(stg, key, value) ==
    [k \in DOMAIN stg \cup {key} |-> IF k = key THEN value ELSE stg[k]]

\* The four INSERT OR IGNORE statements of initialize_database.
DefaultSettings ==
    [fixed_monthly_salary |-> 0, hourly_rate |-> 0,
     month_start_day |-> 28, month_end_day |-> 27]

\* A faulty initialize_database that writes its defaults with INSERT OR
\* REPLACE.
initialize_database_replacing(stg) ==
    [k \in DOMAIN stg \cup DOMAIN DefaultSettings |->
        IF k \in DOMAIN DefaultSettings THEN DefaultSettings[k] ELSE stg[k]]

\* initialize_database on the settings table: CREATE TABLE IF NOT EXISTS
\* keeps an existing table and INSERT OR IGNORE skips a key that has a row.
initialize_database(stg) ==
    [k \in DOMAIN stg \cup DOMAIN DefaultSettings |->
        IF k \in DOMAIN stg THEN stg[k] ELSE DefaultSettings[k]]

\* The arguments of the calls.
DbDates == {<<2025, 6, 2>>, <<2025, 6, 3>>}

DbTimes == {<<9, 0, 0>>, <<17, 0, 0>>}

DbDescriptions == {"Eid", "Labour Day"}

DbSettingValues == {15}

\* A database file that does not exist yet: no table has a row.
InitDb ==
    /\ settings = <<>>
    /\ attendance_logs = {}
    /\ holidays = {}
    /\ today = ToOrdinal(Today)
    /\ args = None
    /\ result = None
    /\ pc = "start"

\* The application start: initialize_database runs before anything else and
\* again at every later start.
InitializeDatabase ==
    /\ settings' = initialize_database(settings)
    /\ args' = None
    /\ result' = None
    /\ pc' = "initialize_database"
    /\ UNCHANGED <<attendance_logs, holidays, today>>

UpdateSetting ==
    /\ pc # "start"
    /\ \E key \in DOMAIN DefaultSettings, value \in DbSettingValues :
          /\ settings' = update_setting(settings, key, value)
          /\ args' = [key |-> key, value |-> value]
    /\ result' = None
    /\ pc' = "update_setting"
    /\ UNCHANGED <<attendance_logs, holidays, today>>

InsertAttendanceLog ==
    /\ pc # "start"
    /\ \E date_str \in DbDates, time_in_str \in DbTimes :
          /\ attendance_logs' = insert_attendance_log(attendance_logs, date_str, time_in_str)
          /\ result' = insert_attendance_log_returns(attendance_logs, date_str, time_in_str)
          /\ args' = [date_str |-> date_str, time_in_str |-> time_in_str]
    /\ pc' = "insert_attendance_log"
    /\ UNCHANGED <<settings, holidays, today>>

UpdateAttendanceLogOutTime ==
    /\ pc # "start"
    /\ \E date_str \in DbDates, time_out_str \in DbTimes \cup {None} :
          /\ attendance_logs' =
                update_attendance_log_out_time(attendance_logs, date_str, time_out_str)
          /\ args' = [date_str |-> date_str, time_out_str |-> time_out_str]
    /\ result' = None
    /\ pc' = "update_attendance_log_out_time"
    /\ UNCHANGED <<settings, holidays, today>>

UpdateAttendanceLogTimes ==
    /\ pc # "start"
    /\ \E date_str \in DbDates, time_in_str \in DbTimes, time_out_str \in DbTimes \cup {None} :
          /\ attendance_logs' = update_attendance_log_times(attendance_logs, date_str,
                                                            time_in_str, time_out_str)
          /\ args' = [date_str |-> date_str, time_in_str |-> time_in_str,
                      time_out_str |-> time_out_str]
    /\ result' = None
    /\ pc' = "update_attendance_log_times"
    /\ UNCHANGED <<settings, holidays, today>>

InsertHoliday ==
    /\ pc # "start"
    /\ \E holiday_date_str \in DbDates, description \in DbDescriptions :
          /\ holidays' = insert_holiday(holidays, holiday_date_str, description)
          /\ result' = insert_holiday_returns(holidays, holiday_date_str, description)
          /\ args' = [holiday_date_str |-> holiday_date_str, description |-> description]
    /\ pc' = "insert_holiday"
    /\ UNCHANGED <<settings, attendance_logs, today>>

DeleteHoliday ==
    /\ pc # "start"
    /\ \E holiday_date_str \in DbDates :
          /\ holidays' = delete_holiday(holidays, holiday_date_str)
          /\ args' = [holiday_date_str |-> holiday_date_str]
    /\ result' = None
    /\ pc' = "delete_holiday"
    /\ UNCHANGED <<settings, attendance_logs, today>>

NextDb ==
    \/ InitializeDatabase
    \/ UpdateSetting
    \/ InsertAttendanceLog
    \/ UpdateAttendanceLogOutTime
    \/ UpdateAttendanceLogTimes
    \/ InsertHoliday
    \/ DeleteHoliday

SpecDb == InitDb /\ [][NextDb]_vars

\* C22: after every write each date has at most one attendance record and at
\* most one holiday. insert_attendance_log for a date that has a record
\* returns False and leaves the table as it was (otherwise it returns True
\* and adds the record without a time_out); insert_holiday for a date that
\* has a holiday returns False and keeps the stored description.
ThmC22_OneRecordPerDate ==
    [][/\ \A r1, r2 \in attendance_logs' : r1.date = r2.date => r1 = r2
       /\ \A h1, h2 \in holidays' : h1.holiday_date = h2.holiday_date => h1 = h2
       /\ pc' = "insert_attendance_log" =>
             IF \E r \in attendance_logs : r.date = args'.date_str
             THEN result' = FALSE /\ attendance_logs' = attendance_logs
             ELSE /\ result' = TRUE
                  /\ attendance_logs' = attendance_logs
                        \cup {[date |-> args'.date_str, time_in |-> args'.time_in_str,
                               time_out |-> None]}
       /\ pc' = "insert_holiday" =>
             IF \E h \in holidays : h.holiday_date = args'.holiday_date_str
             THEN result' = FALSE /\ holidays' = holidays
             ELSE /\ result' = TRUE
                  /\ holidays' = holidays
                        \cup {[holiday_date |-> args'.holiday_date_str,
                               description |-> args'.description]}]_vars

\* C22 witness: a second insert_attendance_log for a date has returned False
\* and the record keeps other times than the ones of the call, while a
\* holiday keeps its date.
WitC22_SecondInsertRefused ==
    /\ pc = "insert_attendance_log"
    /\ result = FALSE
    /\ \E r \in attendance_logs :
          /\ r.date = args.date_str
          /\ r.time_in # args.time_in_str
          /\ r.time_out # None
    /\ holidays # {}

\* C23: initialize_database leaves every stored setting as it is, gives the
\* keys without a row the defaults 0, 0, 28, 27, and leaves the attendance
\* logs and the holidays as they are; a second call in a row changes nothing.
ThmC23_InitializeKeepsSettings ==
    [][pc' = "initialize_database" =>
          /\ DOMAIN settings' = DOMAIN settings \cup DOMAIN DefaultSettings
          /\ \A k \in DOMAIN settings : settings'[k] = settings[k]
          /\ \A k \in DOMAIN settings' \ DOMAIN settings : settings'[k] = DefaultSettings[k]
          /\ DefaultSettings = [fixed_monthly_salary |-> 0, hourly_rate |-> 0,
                                month_start_day |-> 28, month_end_day |-> 27]
          /\ initialize_database(settings') = settings'
          /\ attendance_logs' = attendance_logs
          /\ holidays' = holidays]_vars

\* C23 witness: initialize_database has run on a database whose salary and
\* start day were changed by update_setting and that holds a log and a
\* holiday.
WitC23_RestartAfterUpdate ==
    /\ pc = "initialize_database"
    /\ settings["fixed_monthly_salary"] # DefaultSettings["fixed_monthly_salary"]
    /\ settings["month_start_day"] # DefaultSettings["month_start_day"]
    /\ settings["hourly_rate"] = DefaultSettings["hourly_rate"]
    /\ attendance_logs # {}
    /\ holidays # {}

\* ------------------------------------------------------------------------
\* Specification SpecEdit: calls of update_attendance_entry on a table that
\* holds at most a record for today, each followed or not by a salary
\* calculation.
\* ------------------------------------------------------------------------

\* The dates and the time strings handed to update_attendance_entry: today
\* and the day after; an empty string, a string that is not of the form
\* HH:MM:SS, a time of day and three two-digit fields that are no time of day.
EntryDates == {Today, FromOrdinal(ToOrdinal(Today) + 1)}

EntryTimes == {EmptyStr, <<1>>, <<9, 0, 0>>, <<25, 0, 0>>}

InitEdit ==
    /\ \E c \in MalformedConfigs :
          settings = [fixed_monthly_salary |-> c[1], hourly_rate |-> c[2],
                      month_start_day |-> c[3], month_end_day |-> c[4]]
    /\ today = ToOrdinal(Today)
    /\ \/ attendance_logs = {}
       \/ \E t \in ClockTimes, o \in ClockTimes \cup {None} :
             attendance_logs = {Row(Today, t, o)}
    /\ holidays = {}
    /\ args = None
    /\ result = None
    /\ pc = "start"

\* A call of update_attendance_entry; args takes the arguments of the call
\* and result the returned pair.
UpdateAttendanceEntry ==
    \E date_str \in EntryDates, new_time_in_str \in EntryTimes, new_time_out_str \in EntryTimes :
        LET r == update_attendance_entry(attendance_logs, date_str, new_time_in_str,
                                         new_time_out_str)
        IN  /\ attendance_logs' = r.logs
            /\ result' = [message |-> r.message, success |-> r.success]
            /\ args' = [date_str |-> date_str, new_time_in_str |-> new_time_in_str,
                        new_time_out_str |-> new_time_out_str]
            /\ pc' = "update_entry"
            /\ UNCHANGED <<settings, holidays, today>>

\* A salary calculation after an edit.
CalculateAfterEntry ==
    /\ pc = "update_entry"
    /\ result' = calculate_monthly_salary(settings, attendance_logs, holidays, today)
    /\ pc' = "done"
    /\ attendance_logs' = rows_after_select(attendance_logs)
    /\ holidays' = rows_after_select(holidays)
    /\ UNCHANGED <<settings, today, args>>

NextEdit == UpdateAttendanceEntry \/ CalculateAfterEntry

SpecEdit == InitEdit /\ [][NextEdit]_vars

\* The time_out that update_attendance_entry stores for its third argument.
StoredTimeOut(new_time_out_str) == IF Falsy(new_time_out_str) THEN None ELSE new_time_out_str

\* C27 as claimed: when update_attendance_entry returns True the table holds
\* a record for the given date with the given time_in and time_out, and
\* when it returns an error the table is as it was.
CexC27_SuccessMeansStored ==
    [][pc' = "update_entry" =>
          IF result'.success
          THEN \E r \in attendance_logs' :
                  /\ r.date = args'.date_str
                  /\ r.time_in = args'.new_time_in_str
                  /\ r.time_out = StoredTimeOut(args'.new_time_out_str)
          ELSE attendance_logs' = attendance_logs]_vars

\* What the code does: an error leaves the table as it was, and a success
\* rewrites the record of the date if there is one and creates none.
EntryStoredWhenPresent ==
    [][pc' = "update_entry" =>
          IF result'.success
          THEN attendance_logs' =
                  {IF r.date = args'.date_str
                   THEN [date |-> r.date, time_in |-> args'.new_time_in_str,
                         time_out |-> StoredTimeOut(args'.new_time_out_str)]
                   ELSE r : r \in attendance_logs}
          ELSE attendance_logs' = attendance_logs]_vars

\* C28 as claimed: after update_attendance_entry has accepted and stored a
\* time-in for a date, a salary calculation gives that date no record with
\* the reason "Invalid IN Time Format".
CexC28_AcceptedTimeInParses ==
    [][(/\ pc = "update_entry"
        /\ result.success
        /\ \E r \in attendance_logs : r.date = args.date_str
        /\ pc' = "done"
        /\ result'.outcome = "report") =>
          \A k \in 1..Len(result'.report.details) :
             result'.report.details[k].date = args.date_str =>
                result'.report.details[k].penalty_reason # R_Invalid]_vars

\* What the code does: an accepted time-in that strptime parses never gives
\* the reason "Invalid IN Time Format".
ParsableTimeInClassified ==
    [][(/\ pc = "update_entry"
        /\ result.success
        /\ strptime_time_ok(args.new_time_in_str)
        /\ pc' = "done"
        /\ result'.outcome = "report") =>
          \A k \in 1..Len(result'.report.details) :
             result'.report.details[k].date = args.date_str =>
                result'.report.details[k].penalty_reason # R_Invalid]_vars

\* ------------------------------------------------------------------------
\* Specification SpecInterleaved: one calculate_monthly_salary, statement
\* block by statement block, while another process (a second window of the
\* application on the same database file) inserts and deletes holidays.
\* args holds the locals of the running calculation, holidays is the table.
\* ------------------------------------------------------------------------

\* The policy of the run: the period 2025-05-31..2025-06-03.
InterleavedConfig == <<60000, 250, 31, 3>>

\* Logs are stored for the Monday and the Tuesday of the period.
InterleavedLogDates == {<<2025, 6, 2>>, <<2025, 6, 3>>}

\* The other process writes holidays for the Saturday, the Monday and the
\* Tuesday of the period.
WriterDates == {<<2025, 5, 31>>, <<2025, 6, 2>>, <<2025, 6, 3>>}

\* The number of writes of the other process during one run.
MaxWrites == 2

InitInterleaved ==
    /\ settings = [fixed_monthly_salary |-> InterleavedConfig[1],
                   hourly_rate |-> InterleavedConfig[2],
                   month_start_day |-> InterleavedConfig[3],
                   month_end_day |-> InterleavedConfig[4]]
    /\ today = ToOrdinal(Today)
    /\ \E D \in SUBSET InterleavedLogDates, t \in LogTimes :
          attendance_logs = {Row(d, t, None) : d \in D}
    /\ \E H \in {X \in SUBSET WriterDates : Cardinality(X) <= MaxHolidays} :
          holidays = {Holiday(d, "Eid") : d \in H}
    /\ args = [writes |-> 0]
    /\ result = None
    /\ pc = "start"

\* Lines 229-262: the settings, the period, the two range queries and the
\* loop's locals.
BeginCalculation ==
    /\ pc = "start"
    /\ LET period == get_start_end_dates_for_period(settings, today)
           fixed_monthly_salary_str == get_setting(settings, "fixed_monthly_salary")
           hourly_rate_str == get_setting(settings, "hourly_rate")
           fixed_monthly_salary == IF fixed_monthly_salary_str # None
                                   THEN fixed_monthly_salary_str[1] ELSE 0
           hourly_rate == IF hourly_rate_str # None THEN hourly_rate_str[1] ELSE 0
       IN  IF ~period.ok
           THEN /\ result' = [outcome |-> "ValueError"]
                /\ pc' = "failed"
                /\ args' = args
           ELSE IF fixed_monthly_salary = 0 \/ hourly_rate = 0
           THEN /\ result' = [outcome |-> "report",
                              report |-> [total_salary |-> 0, details |-> << >>,
                                          summary |-> ConfigMissing]]
                /\ pc' = "done"
                /\ args' = args
           ELSE /\ args' = [writes |-> args.writes,
                            holidays_at_start |-> holidays,
                            period |-> period,
                            fixed_salary_per_day |-> PerDay(fixed_monthly_salary),
                            hourly_rate |-> hourly_rate * Unit,
                            all_logs |-> get_attendance_logs_in_range(attendance_logs,
                                             period.start, period.end),
                            all_holidays |-> get_holidays_in_range(holidays,
                                                 period.start, period.end),
                            current_date |-> strptime_date(period.start),
                            acc |-> LoopInit]
                /\ pc' = "loop"
                /\ result' = result
    /\ UNCHANGED <<settings, attendance_logs, holidays, today>>

\* Lines 265-328: one iteration of the date loop; is_public_holiday reads
\* the holidays table as it is now.
IterateDay ==
    /\ pc = "loop"
    /\ args.current_date <= strptime_date(args.period.end)
    /\ LET acc == DayStep(args.acc, args.current_date, args.all_logs, args.all_holidays,
                          holidays, args.fixed_salary_per_day, args.hourly_rate)
       IN  IF acc.error
           THEN /\ result' = [outcome |-> "KeyError"]
                /\ pc' = "failed"
                /\ args' = [args EXCEPT !.acc = acc]
           ELSE /\ args' = [args EXCEPT !.acc = acc,
                                        !.current_date = NextDate(args.current_date)]
                /\ pc' = "loop"
                /\ result' = result
    /\ UNCHANGED <<settings, attendance_logs, holidays, today>>

\* Lines 330-388: the late cut, the grace loop (whose is_public_holiday reads
\* the holidays table as it is now), the Saturday step and the report.
FinishCalculation ==
    /\ pc = "loop"
    /\ args.current_date > strptime_date(args.period.end)
    /\ result' = PostIteration(args.acc, holidays, args.fixed_salary_per_day,
                               args.period.start, args.period.end)
    /\ pc' = "done"
    /\ UNCHANGED <<settings, attendance_logs, holidays, today, args>>

\* The other process adds a holiday while the calculation runs.
WriterInsertsHoliday ==
    /\ pc = "loop"
    /\ args.writes < MaxWrites
    /\ \E holiday_date_str \in WriterDates :
          holidays' = insert_holiday(holidays, holiday_date_str, "Eid")
    /\ args' = [args EXCEPT !.writes = @ + 1]
    /\ UNCHANGED <<settings, attendance_logs, today, result, pc>>

\* The other process deletes a holiday while the calculation runs.
WriterDeletesHoliday ==
    /\ pc = "loop"
    /\ args.writes < MaxWrites
    /\ \E holiday_date_str \in WriterDates :
          holidays' = delete_holiday(holidays, holiday_date_str)
    /\ args' = [args EXCEPT !.writes = @ + 1]
    /\ UNCHANGED <<settings, attendance_logs, today, result, pc>>

NextInterleaved ==
    \/ BeginCalculation
    \/ IterateDay
    \/ FinishCalculation
    \/ WriterInsertsHoliday
    \/ WriterDeletesHoliday

SpecInterleaved == InitInterleaved /\ [][NextInterleaved]_vars

\* The run has ended, with a report or with an exception.
RunEnded == pc \in {"done", "failed"}

\* C29 as claimed: whatever the other process writes during the run, the
\* run ends with the report that the holiday table read at its start gives.
CexC29_OneHolidaySnapshot ==
    RunEnded =>
        /\ result.outcome = "report"
        /\ result = calculate_monthly_salary(settings, attendance_logs,
                                             args.holidays_at_start, today)

\* What the code does: a run during which the other process writes nothing
\* ends with the report of the holiday table read at its start.
SnapshotWhenUndisturbed ==
    (RunEnded /\ args.writes = 0) =>
        /\ result.outcome = "report"
        /\ result = calculate_monthly_salary(settings, attendance_logs,
                                             args.holidays_at_start, today)

\* A run has ended with KeyError.
RunFailedOnInsertedHoliday == pc = "failed" /\ result.outcome = "KeyError"

\* A run has ended with a report in which a date that was a holiday at the
\* start is classified as an ordinary day.
RunMixedHolidayData ==
    /\ pc = "done"
    /\ \E k \in 1..Len(Details) :
          /\ HasKey(args.holidays_at_start, Details[k].date)
          /\ ~IsSunday(Details[k].date)
          /\ Details[k].status \notin {S_HolidaySaturday, S_Holiday("Eid")}

====
